---- MODULE Spec2Model ----
(***************************************************************************)
(* Model of Dashboard_music.py: the resolution cache (stream_cache,        *)
(* cleanup_cache, get_direct_stream_url), the extractor chain and the      *)
(* ffmpeg streaming generators of /stream, /esp32_stream and /download.    *)
(***************************************************************************)
EXTENDS Integers, Sequences, FiniteSets, TLC

VARIABLES
    clock,          \* time.time(), in seconds
    ticks,          \* number of clock advances so far
    stream_cache,   \* the dict stream_cache, in insertion order: <<[key, time, url]>>
    SERVER_STATS,   \* the counters of SERVER_STATS
    ncalls,         \* get_direct_stream_url calls started so far
    pc,             \* per request thread: position in get_direct_stream_url
    query,          \* per thread: the argument of get_direct_stream_url
    current_time,   \* per thread: cleanup_cache's current_time
    scan_len,       \* per thread: len(stream_cache) when the expiry scan began
    expired_keys,   \* per thread: cleanup_cache's expired_keys
    audio_url,      \* per thread: the local audio_url
    ret,            \* per thread: what the call returned (or that it raised)
    served,         \* per thread: the cache entry the lookup looked at, and when
    calls,          \* per thread: upstream calls made by the current request
    upstream,       \* per thread: what the upstream services answered
    youtube_link,   \* per thread: the local youtube_link
    caller,         \* per thread: the handler code the thread runs
    to_remove,      \* per thread: cleanup_cache's keys_to_remove
    deleted,        \* per thread: how far the `for key in ...: del` loop has come
    time_read,      \* per thread: what time.time() returned in line 355
    count,          \* per thread: clear_cache's count
    cache_time,     \* per thread: the local cache_time
    norm_in,        \* query normalisation: the query string
    norm_step,      \* query normalisation: how far the run has come
    norm_out,       \* query normalisation: (direct link?, key) of the query
    norm_again,     \* the same for strip(lower(query))
    fb_pc,          \* Cobalt fallback call: "idle" or "returned"
    fb_order,       \* Cobalt fallback call: the shuffled instances
    fb_answers,     \* Cobalt fallback call: what each instance answers
    fb_result,      \* Cobalt fallback call: the value returned
    fb_contacted,   \* Cobalt fallback call: the instances a request went to
    yt_pc,          \* yt-dlp call: "idle" or "returned"
    yt_info,        \* yt-dlp call: what ydl.extract_info answered
    yt_result,      \* yt-dlp call: the value returned
    cycle,          \* streaming: number of streaming requests so far
    endpoint,       \* streaming: the endpoint of the current request
    gen,            \* streaming: position of the generator generate()
    outcome,        \* streaming: why the generator left its read loop
    procs,          \* streaming: state of every ffmpeg process spawned so far
    has_proc,       \* streaming: the generator's `process` is not None
    term,           \* streaming: process.terminate() was called
    written,        \* streaming: blocks ffmpeg wrote to stdout (1..written)
    pipe,           \* streaming: blocks in the stdout pipe, not yet read
    sent,           \* streaming: blocks yielded to the response, in order
    waited,         \* streaming: seconds spent in process.wait so far
    client,         \* streaming: whether the HTTP client is still connected
    errpipe,        \* streaming: how full the stderr pipe of ffmpeg is
    errbuf,         \* streaming: the buffer of process.stderr holds a line for read_stderr
    reader,         \* streaming: the read_stderr thread of the generator
    other_gens,     \* streaming: generators beside this one, not yet at Popen
    other_procs,    \* streaming: ffmpeg processes alive of generators beside
    request,        \* per thread: the route and the arguments of the request
    response,       \* per thread: the response of the handler
    follows         \* per thread: the request is for the audio_url of an answer

cacheVars == <<clock, ticks, stream_cache, SERVER_STATS, ncalls, pc, query,
               current_time, scan_len, expired_keys, audio_url, ret, served, calls,
               upstream, youtube_link, caller, to_remove, deleted, time_read, count, cache_time>>

normVars == <<norm_in, norm_step, norm_out, norm_again>>

fbVars == <<fb_pc, fb_order, fb_answers, fb_result, fb_contacted>>

ytVars == <<yt_pc, yt_info, yt_result>>

streamVars == <<cycle, endpoint, gen, outcome, procs, has_proc, term, written,
                pipe, sent, waited, client, errpipe, errbuf, reader, other_gens,
                other_procs>>

handlerVars == <<request, response, follows>>

vars == <<cacheVars, normVars, fbVars, ytVars, streamVars, handlerVars>>

-----------------------------------------------------------------------------
(* Program constants *)

CACHE_DURATION == 1800
MAX_CACHE_SIZE == 100

(* Bounds of the model *)
MaxTicks == 1
MaxCycles == 2
MaxBlocks == 2
MaxWait == 3
MaxFormats == 2

\* Flask runs every request on a thread of its own (threaded=True).
Procs == {"r1", "r2"}
ThreadBefore(o, p) == o = "r1" /\ p = "r2"

-----------------------------------------------------------------------------
(* Strings are sequences of one-character strings. *)

UpperCase == <<"A", "B", "H", "P", "S", "T", "Y">>
LowerCase == <<"a", "b", "h", "p", "s", "t", "y">>
Whitespace == {" ", "\t", "\n"}

\* str.lower() on one character
lower_char(c) ==
    IF \E i \in 1..Len(UpperCase) : UpperCase[i] = c
    THEN LowerCase[CHOOSE i \in 1..Len(UpperCase) : UpperCase[i] = c]
    ELSE c

\* str.lower()
lower(s) == [i \in 1..Len(s) |-> lower_char(s[i])]

RECURSIVE lstrip(_)
lstrip(s) == IF s # <<>> /\ Head(s) \in Whitespace THEN lstrip(Tail(s)) ELSE s

RECURSIVE rstrip(_)
rstrip(s) ==
    IF s # <<>> /\ s[Len(s)] \in Whitespace
    THEN rstrip(SubSeq(s, 1, Len(s) - 1))
    ELSE s

\* str.strip()
strip(s) == rstrip(lstrip(s))

\* str.startswith(prefix)
startswith(s, prefix) ==
    Len(s) >= Len(prefix) /\ SubSeq(s, 1, Len(prefix)) = prefix

HTTP == <<"h", "t", "t", "p", ":", "/", "/">>
HTTPS == <<"h", "t", "t", "p", "s", ":", "/", "/">>

\* cache_key = query.strip().lower()
cache_key(q) == lower(strip(q))

\* query.startswith("http://") or query.startswith("https://")
is_direct_link_http_only(q) == startswith(q, HTTP)
is_direct_link(q) == startswith(q, HTTP) \/ startswith(q, HTTPS)

-----------------------------------------------------------------------------
(* Audio URLs.  A URL value records the source link it was extracted from, *)
(* the stage (yt-dlp or a Cobalt instance) that produced it and the field  *)
(* of the answer it was read from; None and "" are the two falsy values.   *)

\* A link handed to the extractor chain: the query itself, or
\* "https://www.youtube.com/watch?v=" followed by a video id.
NoLink == [prefix |-> "", rest |-> <<>>]
query_link(q) == [prefix |-> "", rest |-> q]

None == [src |-> NoLink, via |-> "None", field |-> ""]
EmptyUrl == [src |-> NoLink, via |-> "empty", field |-> ""]
Url(link, stage, field) == [src |-> link, via |-> stage, field |-> field]

\* Python truthiness of a URL value: `if audio_url:`
truthy(u) == u.src # NoLink

-----------------------------------------------------------------------------
(* The dict stream_cache *)

has_key(cache, k) == \E i \in 1..Len(cache) : cache[i].key = k

entry_of(cache, k) == cache[CHOOSE i \in 1..Len(cache) : cache[i].key = k]

\* cache_time, audio_url = stream_cache[k]: the dict after the read
get_item_touches(cache, k, now) ==
    [i \in 1..Len(cache) |->
        IF cache[i].key = k THEN [cache[i] EXCEPT !.time = now] ELSE cache[i]]
get_item(cache, k, now) == cache

\* del stream_cache[k]
del_key(cache, k) == SelectSeq(cache, LAMBDA e : e.key # k)

\* stream_cache[k] = (t, u): an existing key keeps its position
set_item_keeps_first(cache, k, t, u) ==
    IF has_key(cache, k) THEN cache
    ELSE Append(cache, [key |-> k, time |-> t, url |-> u])
set_item(cache, k, t, u) ==
    IF has_key(cache, k)
    THEN [i \in 1..Len(cache) |->
            IF cache[i].key = k THEN [key |-> k, time |-> t, url |-> u] ELSE cache[i]]
    ELSE Append(cache, [key |-> k, time |-> t, url |-> u])

\* get_direct_stream_url: else: del stream_cache[cache_key]
del_stale_skipped(cache, k) == cache
del_stale(cache, k) == del_key(cache, k)

\* cleanup_cache: current_time - cache_time > CACHE_DURATION
is_expired_strict(now, t) == now - t >= CACHE_DURATION
is_expired(now, t) == now - t > CACHE_DURATION

\* cleanup_cache: the expiry scan, keys in dict order
keys_of(items) == [i \in 1..Len(items) |-> items[i].key]
scan_expired(cache, now) ==
    keys_of(SelectSeq(cache, LAMBDA e : is_expired(now, e.time)))

\* cleanup_cache: for key in expired_keys: del stream_cache[key]
\* (a key that is no longer there raises KeyError and ends the loop)
RECURSIVE del_all(_, _)
del_all(cache, keys) ==
    IF keys = <<>> THEN [cache |-> cache, raised |-> FALSE]
    ELSE IF ~has_key(cache, Head(keys)) THEN [cache |-> cache, raised |-> TRUE]
    ELSE del_all(del_key(cache, Head(keys)), Tail(keys))

\* sorted(stream_cache.items(), key=lambda x: x[1][0]): position of item i
\* in the stable ascending order by creation time
sort_rank(cache, i) ==
    Cardinality({j \in 1..Len(cache) :
        \/ cache[j].time < cache[i].time
        \/ cache[j].time = cache[i].time /\ j < i})

\* sorted_items[r - 1] (item r of a dict that is in that order already)
sorted_item(cache, r) ==
    IF sort_rank(cache, r) = r - 1 THEN cache[r]
    ELSE cache[CHOOSE i \in 1..Len(cache) : sort_rank(cache, i) = r - 1]

\* seq[:stop] of a list of n items: the number of items in the slice
slice_len(n, stop) ==
    IF stop >= 0 THEN (IF stop < n THEN stop ELSE n)
    ELSE (IF n + stop > 0 THEN n + stop ELSE 0)

\* keys_to_remove = [k for k, _ in sorted_items[:len(sorted_items) - MAX_CACHE_SIZE]]
keys_to_remove(cache) ==
    [r \in 1..slice_len(Len(cache), Len(cache) - MAX_CACHE_SIZE) |->
        sorted_item(cache, r).key]

\* cleanup_cache: if len(stream_cache) > MAX_CACHE_SIZE
over_capacity_never(cache) == FALSE
over_capacity(cache) == Len(cache) > MAX_CACHE_SIZE

\* cleanup_cache: the capacity step with no other thread in between
enforce_capacity(cache) ==
    IF over_capacity(cache)
    THEN del_all(cache, keys_to_remove(cache)).cache
    ELSE cache

\* cleanup_cache() run at time now with no other thread in between
cleanup_cache(cache, now) ==
    enforce_capacity(del_all(cache, scan_expired(cache, now)).cache)

\* get_direct_stream_url: time.time() - cache_time < CACHE_DURATION
is_fresh_inclusive(now, t) == now - t <= CACHE_DURATION
is_fresh(now, t) == now - t < CACHE_DURATION

-----------------------------------------------------------------------------
(* update_stats(request_type, success) *)

update_stats(stats, request_type, success) ==
    LET s1 == [stats EXCEPT !.total_requests = @ + 1]
    IN  IF request_type = "stream"
        THEN IF success
             THEN [s1 EXCEPT !.successful_streams = @ + 1]
             ELSE [s1 EXCEPT !.failed_streams = @ + 1]
        ELSE IF request_type = "cache"
        THEN IF success
             THEN [s1 EXCEPT !.cache_hits = @ + 1]
             ELSE [s1 EXCEPT !.cache_misses = @ + 1]
        ELSE s1

-----------------------------------------------------------------------------
(* Upstream collaborators.  What the network answers is chosen by the      *)
(* environment; what the code does with the answer is computed here.       *)

WATCH == "https://www.youtube.com/watch?v="

\* f"https://www.youtube.com/watch?v={video_id}"
watch_link(video_id) == [prefix |-> WATCH, rest |-> video_id]

\* One ytmusic.search answer: it raises, or it is a list of results, each
\* with a videoId (<<>> when the result has none).
SearchAnswers ==
    { [raises |-> TRUE, results |-> <<>>],
      [raises |-> FALSE, results |-> <<>>],
      [raises |-> FALSE, results |-> << <<"s", "1">>, <<"s", "2">> >>],
      [raises |-> FALSE, results |-> << <<>>, <<"s", "2">> >>] }

VideoAnswers ==
    { [raises |-> TRUE, results |-> <<>>],
      [raises |-> FALSE, results |-> <<>>],
      [raises |-> FALSE, results |-> << <<"v", "1">>, <<"v", "2">> >>],
      [raises |-> FALSE, results |-> << <<>>, <<"v", "2">> >>] }

\* search_with_ytmusic(query): the link found (NoLink for None), the
\* searches issued and whether the call raised, given whether ytmusic was
\* initialised and what the "songs" and "videos" searches answer.  An
\* exception of a search is caught (except Exception: return None).
Searched(link, issued) == [link |-> link, issued |-> issued, raised |-> FALSE]

search_with_ytmusic_uncaught(ytmusic_ok, songs, videos) ==
    [link |-> NoLink, issued |-> <<"search:songs">>,
     raised |-> ytmusic_ok /\ (songs.raises \/ videos.raises)]
search_with_ytmusic_any_result(ytmusic_ok, songs, videos) ==
    IF songs.results # <<>> /\ songs.results[Len(songs.results)] # <<>>
    THEN Searched(watch_link(songs.results[Len(songs.results)]), <<"search:songs">>)
    ELSE Searched(NoLink, <<"search:songs", "search:videos">>)
search_with_ytmusic(ytmusic_ok, songs, videos) ==
    IF ~ytmusic_ok THEN Searched(NoLink, <<>>)
    ELSE IF songs.raises THEN Searched(NoLink, <<"search:songs">>)
    ELSE IF songs.results # <<>> /\ songs.results[1] # <<>>
    THEN Searched(watch_link(songs.results[1]), <<"search:songs">>)
    ELSE IF videos.raises
    THEN Searched(NoLink, <<"search:songs", "search:videos">>)
    ELSE IF videos.results # <<>> /\ videos.results[1] # <<>>
    THEN Searched(watch_link(videos.results[1]), <<"search:songs", "search:videos">>)
    ELSE Searched(NoLink, <<"search:songs", "search:videos">>)

\* One ydl.extract_info answer: it raises, or it is an info dict with or
\* without a top-level 'url' and with a list of formats.
FormatName == <<"format1", "format2", "format3">>

InfoAnswers ==
    { [raises |-> TRUE, url |-> "absent", formats |-> <<>>],
      [raises |-> FALSE, url |-> "present", formats |-> <<>>],
      [raises |-> FALSE, url |-> "absent", formats |-> <<>>],
      [raises |-> FALSE, url |-> "absent",
       formats |-> << [acodec |-> "opus", vcodec |-> "vp9", url |-> TRUE],
                      [acodec |-> "opus", vcodec |-> "none", url |-> FALSE],
                      [acodec |-> "mp4a", vcodec |-> "none", url |-> TRUE] >>],
      [raises |-> FALSE, url |-> "absent",
       formats |-> << [acodec |-> "none", vcodec |-> "none", url |-> TRUE],
                      [acodec |-> "none", vcodec |-> "avc1", url |-> TRUE] >>] }

\* get_best_audio_url_ytdlp that takes the first format with an audio codec,
\* whatever its video codec
get_best_audio_url_ytdlp_any_video(youtube_url, info) ==
    IF info.raises THEN None
    ELSE IF info.url = "present" THEN Url(youtube_url, "ytdlp", "url")
    ELSE IF info.url = "empty" THEN EmptyUrl
    ELSE IF info.url = "null" THEN None
    ELSE LET ok == {i \in 1..Len(info.formats) :
                      /\ info.formats[i].acodec # "none"
                      /\ info.formats[i].url}
         IN  IF ok = {} THEN None
             ELSE Url(youtube_url, "ytdlp", FormatName[CHOOSE i \in ok : \A j \in ok : i <= j])

\* get_best_audio_url_ytdlp(youtube_url): info.url is "present" (the key
\* holds a URL), "empty" (it holds ''), "null" (it holds None, and slicing
\* it for the log raises) or "absent"; a codec is a name, 'none', or "absent"
\* when the format has no such key.
get_best_audio_url_ytdlp(youtube_url, info) ==
    IF info.raises THEN None
    ELSE IF info.url = "present" THEN Url(youtube_url, "ytdlp", "url")
    ELSE IF info.url = "empty" THEN EmptyUrl
    ELSE IF info.url = "null" THEN None
    ELSE LET ok == {i \in 1..Len(info.formats) :
                      /\ info.formats[i].acodec # "none"
                      /\ info.formats[i].vcodec = "none"
                      /\ info.formats[i].url}
         IN  IF ok = {} THEN None
             ELSE Url(youtube_url, "ytdlp", FormatName[CHOOSE i \in ok : \A j \in ok : i <= j])

COBALT_INSTANCES ==
    <<"https://co.wuk.sh", "https://api.cobalt.best",
      "https://cobalt.tools", "https://cobalt.pub">>

Instances == {COBALT_INSTANCES[i] : i \in 1..Len(COBALT_INSTANCES)}

\* random.shuffle(instances): every order of the instances
Shuffles ==
    {o \in [1..Len(COBALT_INSTANCES) -> Instances] :
        \A i, j \in 1..Len(COBALT_INSTANCES) : i # j => o[i] # o[j]}

\* One answer of requests.post to an instance: an exception (timeout,
\* connection error, other), or a response with a status code whose body
\* is valid JSON or not and has or lacks the fields status, url and audio
\* (a field that is there holds a URL, the empty string, "array": a JSON
\* array that is not empty, "empty_array", or "null": a value that can not
\* be sliced, such as null, false, a number or an object).
Answer(kind, code, json, status, url, audio) ==
    [kind |-> kind, status_code |-> code, json |-> json,
     status |-> status, url |-> url, audio |-> audio]

CobaltFailures ==
    { Answer("timeout", 0, "invalid", "", "absent", "absent"),
      Answer("connection_error", 0, "invalid", "", "absent", "absent"),
      Answer("http", 500, "dict", "error", "present", "absent"),
      Answer("http", 200, "invalid", "", "absent", "absent"),
      Answer("http", 200, "dict", "redirect", "absent", "absent"),
      Answer("http", 200, "dict", "stream", "null", "present"),
      Answer("http", 200, "dict", "picker", "absent", "null") }

CobaltSuccesses ==
    { Answer("http", 200, "dict", "redirect", "present", "absent"),
      Answer("http", 200, "dict", "stream", "present", "present"),
      Answer("http", 200, "dict", "", "absent", "present"),
      Answer("http", 200, "dict", "stream", "empty", "absent"),
      Answer("http", 200, "dict", "stream", "array", "present"),
      Answer("http", 200, "dict", "", "absent", "empty_array") }

CobaltAnswers == CobaltFailures \cup CobaltSuccesses

\* data[field] when it is a JSON array: a list (a value that is no string);
\* the empty list is falsy
UrlList(link, instance, field) ==
    [src |-> link, via |-> instance,
     field |-> IF field = "url" THEN "[url]" ELSE "[audio]"]

EmptyList == [src |-> NoLink, via |-> "empty list", field |-> ""]

\* the value of data[field] for an instance's answer about link
field_value(a, field, instance, link) ==
    IF a[field] = "present" THEN Url(link, instance, field)
    ELSE IF a[field] = "array" THEN UrlList(link, instance, field)
    ELSE IF a[field] = "empty_array" THEN EmptyList
    ELSE EmptyUrl

\* try_instance that returns data['url'] for every answer with status 200
try_instance_accepts_any_200(a, instance, link) ==
    IF a.kind = "http" /\ a.status_code = 200
    THEN [op |-> "return", value |-> field_value(a, "url", instance, link)]
    ELSE [op |-> "next", value |-> None]

\* audio_url = data[field]; logger.info(f"... {audio_url[:80]}..."); return
\* audio_url.  A string and a list can be sliced, and the value is
\* returned as it is; slicing null, a boolean, a number or an object raises
\* (TypeError, KeyError), which `except Exception` catches: continue.
return_field(a, field, instance, link) ==
    IF a[field] = "null" THEN [op |-> "next", value |-> None]
    ELSE [op |-> "return", value |-> field_value(a, field, instance, link)]

\* try_instance that looks at the audio field before the url field
try_instance_prefers_audio(a, instance, link) ==
    IF a.kind # "http" THEN [op |-> "next", value |-> None]
    ELSE IF a.status_code # 200 THEN [op |-> "next", value |-> None]
    ELSE IF a.json # "dict" THEN [op |-> "next", value |-> None]
    ELSE IF a.audio # "absent" THEN return_field(a, "audio", instance, link)
    ELSE IF a.url # "absent" THEN return_field(a, "url", instance, link)
    ELSE [op |-> "next", value |-> None]

\* The body of the for loop for one instance: "return" with the value
\* returned, or "next" when the loop goes on to the next instance.
try_instance(a, instance, link) ==
    IF a.kind # "http" THEN [op |-> "next", value |-> None]
    ELSE IF a.status_code # 200 THEN [op |-> "next", value |-> None]
    ELSE IF a.json # "dict" THEN [op |-> "next", value |-> None]
    ELSE IF a.status = "redirect" /\ a.url # "absent"
    THEN return_field(a, "url", instance, link)
    ELSE IF a.url # "absent" THEN return_field(a, "url", instance, link)
    ELSE IF a.audio # "absent" THEN return_field(a, "audio", instance, link)
    ELSE [op |-> "next", value |-> None]

\* for instance in instances: ... ; return None
\* log is the sequence of instances a request was sent to so far.
RECURSIVE cobalt_loop_keeps_going(_, _, _, _, _, _)
cobalt_loop_keeps_going(instances, answers, link, i, log, best) ==
    IF i > Len(instances) THEN [url |-> best, contacted |-> log]
    ELSE LET r == try_instance(answers[instances[i]], instances[i], link)
         IN  cobalt_loop_keeps_going(instances, answers, link, i + 1,
                                     Append(log, instances[i]),
                                     IF r.op = "return" THEN r.value ELSE best)

RECURSIVE cobalt_loop(_, _, _, _, _)
cobalt_loop(instances, answers, link, i, log) ==
    IF i > Len(instances) THEN [url |-> None, contacted |-> log]
    ELSE LET r == try_instance(answers[instances[i]], instances[i], link)
             asked == Append(log, instances[i])
         IN  IF r.op = "return"
             THEN [url |-> r.value, contacted |-> asked]
             ELSE cobalt_loop(instances, answers, link, i + 1, asked)

\* get_audio_stream_from_cobalt_fallback(youtube_url), given the shuffled
\* order and what each instance answers
get_audio_stream_from_cobalt_fallback_all(youtube_url, shuffled, answers) ==
    cobalt_loop_keeps_going(shuffled, answers, youtube_url, 1, <<>>, None)
get_audio_stream_from_cobalt_fallback(youtube_url, shuffled, answers) ==
    cobalt_loop(shuffled, answers, youtube_url, 1, <<>>)

-----------------------------------------------------------------------------
(* get_direct_stream_url, called by concurrent request threads *)

\* The upstream behaviours a resolution of the cache specification meets.
Upstream(ok, songs, videos, info, answer) ==
    [ytmusic_ok |-> ok, songs |-> songs, videos |-> videos, info |-> info,
     shuffled |-> COBALT_INSTANCES,
     answers |-> [x \in Instances |->
                    IF x = COBALT_INSTANCES[2] THEN answer
                    ELSE Answer("timeout", 0, "invalid", "", "absent", "absent")]]

Found == [raises |-> FALSE, results |-> << <<"s", "1">>, <<"s", "2">> >>]
NotFound == [raises |-> FALSE, results |-> <<>>]
Direct == [raises |-> FALSE, url |-> "present", formats |-> <<>>]
Broken == [raises |-> TRUE, url |-> "absent", formats |-> <<>>]

\* Before a request has asked anything, nothing has answered.
NoUpstream ==
    [ytmusic_ok |-> FALSE, songs |-> NotFound, videos |-> NotFound, info |-> Broken,
     shuffled |-> <<>>, answers |-> <<>>]

Upstreams ==
    { Upstream(TRUE, Found, NotFound, Direct,
               Answer("timeout", 0, "invalid", "", "absent", "absent")),
      Upstream(TRUE, Found, NotFound, Broken,
               Answer("http", 200, "dict", "redirect", "present", "absent")),
      Upstream(TRUE, Found, NotFound, Broken,
               Answer("http", 500, "dict", "error", "present", "absent")),
      Upstream(TRUE, NotFound, NotFound, Direct,
               Answer("timeout", 0, "invalid", "", "absent", "absent")) }

Digits == <<"0", "1", "2", "3", "4", "5", "6", "7", "8", "9">>

\* The cache after n earlier successful requests, one per second, for the
\* queries "z000", "z001", ...
earlier_key(i) ==
    <<"z", Digits[((i \div 100) % 10) + 1], Digits[((i \div 10) % 10) + 1],
      Digits[(i % 10) + 1]>>

earlier_requests(n) ==
    [i \in 1..n |->
        [key |-> earlier_key(i - 1), time |-> i,
         url |-> Url(watch_link(earlier_key(i - 1)), "ytdlp", "url")]]

\* The queries the request threads of the cache specification ask for: a
\* song, a link in two spellings, and the query of the second earlier
\* request.
Queries ==
    { <<"A", "b">>,
      <<"h", "t", "t", "p", ":", "/", "/", "y">>,
      <<"h", "t", "t", "p", ":", "/", "/", "Y">>,
      earlier_key(1) }

NoEntry == [found |-> FALSE, created |-> 0, at |-> 0, hit |-> FALSE]
NotReturned == [status |-> "running", value |-> None]

\* No request is being handled, and none was since the statistics were
\* last set to zero.
InitLocals ==
    /\ ticks = 0
    /\ SERVER_STATS = [total_requests |-> 0, successful_streams |-> 0,
                       failed_streams |-> 0, cache_hits |-> 0, cache_misses |-> 0]
    /\ ncalls = 0
    /\ pc = [p \in Procs |-> "idle"]
    /\ query = [p \in Procs |-> <<>>]
    /\ current_time = [p \in Procs |-> 0]
    /\ scan_len = [p \in Procs |-> 0]
    /\ expired_keys = [p \in Procs |-> <<>>]
    /\ audio_url = [p \in Procs |-> None]
    /\ ret = [p \in Procs |-> NotReturned]
    /\ served = [p \in Procs |-> NoEntry]
    /\ calls = [p \in Procs |-> <<>>]
    /\ upstream = [p \in Procs |-> NoUpstream]
    /\ youtube_link = [p \in Procs |-> NoLink]
    /\ caller = [p \in Procs |-> ""]
    /\ to_remove = [p \in Procs |-> <<>>]
    /\ deleted = [p \in Procs |-> 0]
    /\ time_read = [p \in Procs |-> 0]
    /\ count = [p \in Procs |-> 0]
    /\ cache_time = [p \in Procs |-> 0]

InitThreads ==
    /\ clock = MAX_CACHE_SIZE + 1
    /\ InitLocals

\* The starts of the cache specification.  Second 2: the cache is empty, or
\* holds the entries of two requests, made in seconds 1 and 2.  Second
\* CACHE_DURATION + 1: the cache holds the entries of MAX_CACHE_SIZE + 1
\* requests, made in the seconds 1 to MAX_CACHE_SIZE + 1; the oldest entry
\* is CACHE_DURATION old and none was swept yet.
InitCache ==
    /\ \/ /\ clock = 2
          /\ stream_cache \in {<<>>, earlier_requests(2)}
       \/ /\ clock = CACHE_DURATION + 1
          /\ stream_cache = earlier_requests(MAX_CACHE_SIZE + 1)
    /\ InitLocals

\* The clock advances between any two steps: by a second, by the time an
\* entry lives, or by a second more than that.
TickSteps == {1, CACHE_DURATION, CACHE_DURATION + 1}

\* The runs end at this second: from the start with few entries the clock
\* makes one long step, from the start with the full cache only steps of
\* a second.
Horizon == CACHE_DURATION + 2 + MaxTicks

Tick ==
    /\ ticks < MaxTicks
    /\ \E d \in TickSteps : clock + d <= Horizon /\ clock' = clock + d
    /\ ticks' = ticks + 1
    /\ UNCHANGED <<stream_cache, SERVER_STATS, ncalls, pc, query, current_time,
                   scan_len, expired_keys, audio_url, ret, served, calls, upstream,
                   youtube_link, caller, to_remove, deleted, time_read, count, cache_time>>

\* The call ends by raising exc.
Raise(p, exc) ==
    /\ pc' = [pc EXCEPT ![p] = "done"]
    /\ ret' = [ret EXCEPT ![p] = [status |-> exc, value |-> None]]

\* cleanup_cache() begins: it reads the time and starts to iterate over
\* stream_cache.items().
enter_cleanup(p) ==
    /\ current_time' = [current_time EXCEPT ![p] = clock]
    /\ scan_len' = [scan_len EXCEPT ![p] = Len(stream_cache)]
    /\ pc' = [pc EXCEPT ![p] = "scan"]

\* Where cleanup_cache() returns to: get_direct_stream_url goes on to its
\* lookup, status() to its answer.
after_cleanup(p) == IF caller[p] = "status" THEN "status" ELSE "lookup"

\* cleanup_cache() returns or raises: its locals are gone.
leave_cleanup(p) ==
    /\ current_time' = [current_time EXCEPT ![p] = 0]
    /\ scan_len' = [scan_len EXCEPT ![p] = 0]
    /\ expired_keys' = [expired_keys EXCEPT ![p] = <<>>]
    /\ to_remove' = [to_remove EXCEPT ![p] = <<>>]
    /\ deleted' = [deleted EXCEPT ![p] = 0]
    /\ UNCHANGED <<time_read, count, cache_time>>

CallSkipsCleanup(p, q) ==
    /\ pc[p] = "idle"
    /\ \A o \in Procs : pc[o] = "idle" => ~ThreadBefore(o, p)
    /\ ncalls' = ncalls + 1
    /\ query' = [query EXCEPT ![p] = q]
    /\ caller' = [caller EXCEPT ![p] = "get_direct_stream_url"]
    /\ pc' = [pc EXCEPT ![p] = "lookup"]
    /\ UNCHANGED <<clock, ticks, stream_cache, SERVER_STATS, expired_keys,
                   audio_url, ret, served, calls, upstream, youtube_link,
                   current_time, scan_len, to_remove, deleted, time_read, count, cache_time>>
\* A request thread (threads are interchangeable: the first one not yet
\* used) enters get_direct_stream_url(q), which calls cleanup_cache().
Call(p, q) ==
    /\ pc[p] = "idle"
    /\ \A o \in Procs : pc[o] = "idle" => ~ThreadBefore(o, p)
    /\ ncalls' = ncalls + 1
    /\ query' = [query EXCEPT ![p] = q]
    /\ caller' = [caller EXCEPT ![p] = "get_direct_stream_url"]
    /\ enter_cleanup(p)
    /\ UNCHANGED <<clock, ticks, stream_cache, SERVER_STATS, expired_keys,
                   audio_url, ret, served, calls, upstream,
                   youtube_link, to_remove, deleted, time_read, count, cache_time>>

\* A request thread enters status(), which calls cleanup_cache().
Status(p) ==
    /\ pc[p] = "idle"
    /\ \A o \in Procs : pc[o] = "idle" => ~ThreadBefore(o, p)
    /\ caller' = [caller EXCEPT ![p] = "status"]
    /\ enter_cleanup(p)
    /\ UNCHANGED <<clock, ticks, stream_cache, SERVER_STATS, ncalls, query,
                   expired_keys, audio_url, ret, served, calls, upstream,
                   youtube_link, to_remove, deleted, time_read, count, cache_time>>

\* status(): cleanup_cache() has returned; the answer reports
\* len(stream_cache).
StatusAnswer(p) ==
    /\ pc[p] = "status"
    /\ pc' = [pc EXCEPT ![p] = "answered"]
    /\ UNCHANGED <<clock, ticks, stream_cache, SERVER_STATS, ncalls, query,
                   current_time, scan_len, expired_keys, audio_url, ret, served,
                   calls, upstream, youtube_link, caller, to_remove, deleted, time_read, count, cache_time>>

\* dict.clear()
clear(cache) == <<>>

\* clear_cache() begins: count = len(stream_cache)
enter_clear_cache(p) ==
    /\ count' = [count EXCEPT ![p] = Len(stream_cache)]
    /\ caller' = [caller EXCEPT ![p] = "clear_cache"]
    /\ pc' = [pc EXCEPT ![p] = "clear"]
    /\ UNCHANGED <<clock, ticks, stream_cache, SERVER_STATS, ncalls, query,
                   current_time, scan_len, expired_keys, audio_url, ret, served,
                   calls, upstream, youtube_link, to_remove, deleted, time_read,
                   cache_time>>

\* A request thread enters clear_cache().
Clear(p) ==
    /\ pc[p] = "idle"
    /\ \A o \in Procs : pc[o] = "idle" => ~ThreadBefore(o, p)
    /\ enter_clear_cache(p)

\* clear_cache(): stream_cache.clear(), and the answer
clear_cache(p) ==
    /\ pc[p] = "clear"
    /\ stream_cache' = clear(stream_cache)
    /\ count' = [count EXCEPT ![p] = 0]
    /\ pc' = [pc EXCEPT ![p] = "answered"]
    /\ UNCHANGED <<clock, ticks, SERVER_STATS, ncalls, query, current_time,
                   scan_len, expired_keys, audio_url, ret, served, calls,
                   upstream, youtube_link, caller, to_remove, deleted, time_read,
                   cache_time>>

\* cleanup_cache: the iteration ends.  A dict whose size changed under the
\* iterator raises RuntimeError.
Scan(p) ==
    /\ pc[p] = "scan"
    /\ IF Len(stream_cache) # scan_len[p]
       THEN /\ Raise(p, "RuntimeError")
            /\ leave_cleanup(p)
       ELSE /\ expired_keys' = [expired_keys EXCEPT
                                   ![p] = scan_expired(stream_cache, current_time[p])]
            /\ pc' = [pc EXCEPT ![p] = "delete"]
            /\ UNCHANGED <<ret, current_time, scan_len, to_remove, deleted, time_read, count, cache_time>>
    /\ UNCHANGED <<clock, ticks, stream_cache, SERVER_STATS, ncalls, query,
                   audio_url, served, calls, upstream, youtube_link, caller>>

\* `for key in keys: del stream_cache[key]`, one turn of the loop: the
\* key the loop has come to is deleted (KeyError when it is no longer there).
del_next(p, keys) ==
    LET key == keys[deleted[p] + 1]
    IN  IF ~has_key(stream_cache, key)
        THEN /\ Raise(p, "KeyError")
             /\ leave_cleanup(p)
             /\ UNCHANGED stream_cache
        ELSE /\ stream_cache' = del_key(stream_cache, key)
             /\ deleted' = [deleted EXCEPT ![p] = @ + 1]
             /\ UNCHANGED <<pc, ret, current_time, scan_len, expired_keys,
                            to_remove, time_read, count, cache_time>>

\* cleanup_cache: for key in expired_keys: del stream_cache[key].  One step
\* is one del; when the list is through, the thread goes on to the test of
\* line 148.
Cleanup(p) ==
    /\ pc[p] = "delete"
    /\ IF deleted[p] < Len(expired_keys[p])
       THEN del_next(p, expired_keys[p])
       ELSE /\ pc' = [pc EXCEPT ![p] = "capacity"]
            /\ deleted' = [deleted EXCEPT ![p] = 0]
            /\ UNCHANGED <<stream_cache, ret, current_time, scan_len,
                           expired_keys, to_remove, time_read, count, cache_time>>
    /\ UNCHANGED <<clock, ticks, SERVER_STATS, ncalls, query, audio_url, served,
                   calls, upstream, youtube_link, caller>>

\* cleanup_cache: if len(stream_cache) > MAX_CACHE_SIZE; otherwise
\* cleanup_cache returns.
Capacity(p) ==
    /\ pc[p] = "capacity"
    /\ IF over_capacity(stream_cache)
       THEN /\ pc' = [pc EXCEPT ![p] = "sort"]
            /\ UNCHANGED <<current_time, scan_len, expired_keys, to_remove, deleted, time_read, count, cache_time>>
       ELSE /\ pc' = [pc EXCEPT ![p] = after_cleanup(p)]
            /\ leave_cleanup(p)
    /\ UNCHANGED <<clock, ticks, stream_cache, SERVER_STATS, ncalls, query,
                   audio_url, ret, served, calls, upstream, youtube_link, caller>>

\* cleanup_cache: sorted_items and keys_to_remove are computed from the
\* dict as it is now.
Sort(p) ==
    /\ pc[p] = "sort"
    /\ to_remove' = [to_remove EXCEPT ![p] = keys_to_remove(stream_cache)]
    /\ pc' = [pc EXCEPT ![p] = "evict"]
    /\ UNCHANGED <<clock, ticks, stream_cache, SERVER_STATS, ncalls, query,
                   current_time, scan_len, expired_keys, audio_url, ret, served,
                   calls, upstream, youtube_link, caller, deleted, time_read,
                   count, cache_time>>

\* cleanup_cache: for key in keys_to_remove: del stream_cache[key].  One
\* step is one del; when the list is through, cleanup_cache returns.
Evict(p) ==
    /\ pc[p] = "evict"
    /\ IF deleted[p] < Len(to_remove[p])
       THEN del_next(p, to_remove[p])
       ELSE /\ pc' = [pc EXCEPT ![p] = after_cleanup(p)]
            /\ leave_cleanup(p)
            /\ UNCHANGED <<stream_cache, ret>>
    /\ UNCHANGED <<clock, ticks, SERVER_STATS, ncalls, query, audio_url, served,
                   calls, upstream, youtube_link, caller>>

\* get_direct_stream_url after a cache miss: the Resolver (free text
\* only), then yt-dlp (Stage A), then the Cobalt fallback (Stage B) when
\* yt-dlp gave nothing.  `ended` tells where the resolution ended: at the
\* search (nothing found), or after the stage whose value is used.
get_audio_from_both_stages(link, first, second) ==
    [ended |-> "B", url |-> second.url,
     calls |-> <<"ytdlp">> \o second.contacted]
get_audio(link, first, second) ==
    IF truthy(first)
    THEN [ended |-> "A", url |-> first, calls |-> <<"ytdlp">>]
    ELSE [ended |-> "B", url |-> second.url,
          calls |-> <<"ytdlp">> \o second.contacted]

resolution(q, w) ==
    LET direct == is_direct_link(q)
        found == search_with_ytmusic(w.ytmusic_ok, w.songs, w.videos)
        link == IF direct THEN query_link(q) ELSE found.link
        searched == IF direct THEN <<>> ELSE found.issued
        first == get_best_audio_url_ytdlp(link, w.info)
        second == get_audio_stream_from_cobalt_fallback(link, w.shuffled, w.answers)
        chain == get_audio(link, first, second)
    IN  IF ~direct /\ found.raised
        THEN [status |-> "Exception", ended |-> "search", url |-> None,
              calls |-> searched, link |-> NoLink]
        ELSE IF ~direct /\ found.link = NoLink
        THEN [status |-> "returned", ended |-> "search", url |-> None,
              calls |-> searched, link |-> NoLink]
        ELSE [status |-> "returned", ended |-> chain.ended, url |-> chain.url,
              calls |-> searched \o chain.calls, link |-> link]

LookupSkipsCache(p) ==
    /\ pc[p] = "lookup"
    /\ pc' = [pc EXCEPT ![p] = "resolve"]
    /\ UNCHANGED <<clock, ticks, stream_cache, SERVER_STATS, ncalls, query,
                   current_time, scan_len, expired_keys, audio_url, ret, served,
                   calls, upstream, youtube_link, caller, to_remove, deleted, time_read, count, cache_time>>
\* get_direct_stream_url: if cache_key in stream_cache
Lookup(p) ==
    /\ pc[p] = "lookup"
    /\ pc' = [pc EXCEPT ![p] = IF has_key(stream_cache, cache_key(query[p]))
                               THEN "read" ELSE "resolve"]
    /\ UNCHANGED <<clock, ticks, stream_cache, SERVER_STATS, ncalls, query,
                   current_time, scan_len, expired_keys, audio_url, ret, served,
                   calls, upstream, youtube_link, caller, to_remove, deleted, time_read, count, cache_time>>

\* get_direct_stream_url: cache_time, audio_url = stream_cache[cache_key]
\* (KeyError when the key is gone by now)
Read(p) ==
    /\ pc[p] = "read"
    /\ LET k == cache_key(query[p])
       IN  IF ~has_key(stream_cache, k)
           THEN /\ Raise(p, "KeyError")
                /\ UNCHANGED <<stream_cache, cache_time, audio_url>>
           ELSE LET e == entry_of(stream_cache, k)
                IN  /\ stream_cache' = get_item(stream_cache, k, clock)
                    /\ cache_time' = [cache_time EXCEPT ![p] = e.time]
                    /\ audio_url' = [audio_url EXCEPT ![p] = e.url]
                    /\ pc' = [pc EXCEPT ![p] = "age"]
                    /\ UNCHANGED ret
    /\ UNCHANGED <<clock, ticks, SERVER_STATS, ncalls, query, current_time,
                   scan_len, expired_keys, served, calls, upstream, youtube_link,
                   caller, to_remove, deleted, time_read, count>>

\* get_direct_stream_url: if time.time() - cache_time < CACHE_DURATION: the
\* hit is counted and the URL that was read is returned; else the thread goes
\* on to the del.
Age(p) ==
    /\ pc[p] = "age"
    /\ served' = [served EXCEPT ![p] =
           [found |-> TRUE, created |-> cache_time[p], at |-> clock,
            hit |-> is_fresh(clock, cache_time[p])]]
    /\ IF is_fresh(clock, cache_time[p])
       THEN /\ SERVER_STATS' = update_stats(SERVER_STATS, "cache", TRUE)
            /\ ret' = [ret EXCEPT ![p] = [status |-> "returned",
                                          value |-> audio_url[p]]]
            /\ pc' = [pc EXCEPT ![p] = "done"]
       ELSE /\ pc' = [pc EXCEPT ![p] = "stale"]
            /\ UNCHANGED <<SERVER_STATS, ret>>
    /\ cache_time' = [cache_time EXCEPT ![p] = 0]
    /\ UNCHANGED <<clock, ticks, stream_cache, ncalls, query, current_time,
                   scan_len, expired_keys, audio_url, calls, upstream,
                   youtube_link, caller, to_remove, deleted, time_read, count>>

\* get_direct_stream_url: else: del stream_cache[cache_key] (KeyError when
\* the key is gone by now)
DelStale(p) ==
    /\ pc[p] = "stale"
    /\ LET k == cache_key(query[p])
       IN  IF ~has_key(stream_cache, k)
           THEN /\ Raise(p, "KeyError")
                /\ UNCHANGED stream_cache
           ELSE /\ stream_cache' = del_stale(stream_cache, k)
                /\ pc' = [pc EXCEPT ![p] = "resolve"]
                /\ UNCHANGED ret
    /\ UNCHANGED <<clock, ticks, SERVER_STATS, ncalls, query, current_time,
                   scan_len, expired_keys, audio_url, served, calls, upstream,
                   youtube_link, caller, to_remove, deleted, time_read, count, cache_time>>

\* get_direct_stream_url after the lookup: the search, yt-dlp and Cobalt
\* answer (they touch nothing shared).  A search that finds nothing counts
\* a miss and ends the call; otherwise the call goes on to `if audio_url:`.
Resolve(p, w) ==
    LET r == resolution(query[p], w)
    IN  /\ upstream' = [upstream EXCEPT ![p] = w]
        /\ youtube_link' = [youtube_link EXCEPT ![p] = r.link]
        /\ calls' = [calls EXCEPT ![p] = r.calls]
        /\ IF r.status # "returned"
           THEN /\ Raise(p, r.status)
                /\ UNCHANGED <<SERVER_STATS, audio_url>>
           ELSE IF r.ended = "search"
           THEN /\ SERVER_STATS' = update_stats(SERVER_STATS, "cache", FALSE)
                /\ ret' = [ret EXCEPT ![p] = [status |-> "returned", value |-> None]]
                /\ pc' = [pc EXCEPT ![p] = "done"]
                /\ UNCHANGED audio_url
           ELSE /\ audio_url' = [audio_url EXCEPT ![p] = r.url]
                /\ pc' = [pc EXCEPT ![p] = "insert"]
                /\ UNCHANGED <<SERVER_STATS, ret>>

ResolveIn(p, worlds) ==
    /\ pc[p] = "resolve"
    /\ \E w \in worlds : Resolve(p, w)
    /\ UNCHANGED <<clock, ticks, stream_cache, ncalls, query, current_time,
                   scan_len, expired_keys, served, caller, to_remove, deleted, time_read, count, cache_time>>

Resolution(p) == ResolveIn(p, Upstreams)

InsertAlways(p) ==
    /\ pc[p] = "insert"
    /\ time_read' = [time_read EXCEPT ![p] = clock]
    /\ pc' = [pc EXCEPT ![p] = "store"]
    /\ UNCHANGED <<clock, ticks, stream_cache, SERVER_STATS, ncalls, query,
                   current_time, scan_len, expired_keys, audio_url, ret, served,
                   calls, upstream, youtube_link, caller, to_remove, deleted, count, cache_time>>
\* get_direct_stream_url: if audio_url: the right-hand side of line 355 is
\* evaluated, time.time() returns; without a URL the miss is counted and
\* None returned.
Insert(p) ==
    /\ pc[p] = "insert"
    /\ IF truthy(audio_url[p])
       THEN /\ time_read' = [time_read EXCEPT ![p] = clock]
            /\ pc' = [pc EXCEPT ![p] = "store"]
            /\ UNCHANGED <<SERVER_STATS, ret>>
       ELSE /\ SERVER_STATS' = update_stats(SERVER_STATS, "cache", FALSE)
            /\ ret' = [ret EXCEPT ![p] = [status |-> "returned", value |-> None]]
            /\ pc' = [pc EXCEPT ![p] = "done"]
            /\ UNCHANGED time_read
    /\ UNCHANGED <<clock, ticks, stream_cache, ncalls, query, current_time,
                   scan_len, expired_keys, audio_url, served, calls, upstream,
                   youtube_link, caller, to_remove, deleted, count, cache_time>>

\* get_direct_stream_url: stream_cache[cache_key] = (the time read,
\* audio_url), and the URL is returned.
Store(p) ==
    /\ pc[p] = "store"
    /\ stream_cache' = set_item(stream_cache, cache_key(query[p]),
                                time_read[p], audio_url[p])
    /\ ret' = [ret EXCEPT ![p] = [status |-> "returned", value |-> audio_url[p]]]
    /\ pc' = [pc EXCEPT ![p] = "done"]
    /\ time_read' = [time_read EXCEPT ![p] = 0]
    /\ UNCHANGED <<clock, ticks, SERVER_STATS, ncalls, query, current_time,
                   scan_len, expired_keys, audio_url, served, calls, upstream,
                   youtube_link, caller, to_remove, deleted, count, cache_time>>

NextCache ==
    \/ Tick
    \/ \E p \in Procs, q \in Queries : Call(p, q)
    \/ \E p \in Procs : Status(p)
    \/ \E p \in Procs : StatusAnswer(p)
    \/ \E p \in Procs : Clear(p)
    \/ \E p \in Procs : clear_cache(p)
    \/ \E p \in Procs : Scan(p)
    \/ \E p \in Procs : Cleanup(p)
    \/ \E p \in Procs : Capacity(p)
    \/ \E p \in Procs : Sort(p)
    \/ \E p \in Procs : Evict(p)
    \/ \E p \in Procs : Lookup(p)
    \/ \E p \in Procs : Read(p)
    \/ \E p \in Procs : Age(p)
    \/ \E p \in Procs : DelStale(p)
    \/ \E p \in Procs : Resolution(p)
    \/ \E p \in Procs : Insert(p)
    \/ \E p \in Procs : Store(p)

-----------------------------------------------------------------------------
(* One request through get_direct_stream_url on an empty cache, for every  *)
(* combination of what the search, yt-dlp and the Cobalt instances answer. *)

World(ok, songs, videos, info, shuffled, answers) ==
    [ytmusic_ok |-> ok, songs |-> songs, videos |-> videos, info |-> info,
     shuffled |-> shuffled, answers |-> answers]

\* What an instance answers in these runs: a timeout, a non-200 status, a
\* redirect with a URL, and a 200 whose url field is the empty string.
ResolveAnswers ==
    { Answer("timeout", 0, "invalid", "", "absent", "absent"),
      Answer("http", 500, "dict", "error", "present", "absent"),
      Answer("http", 200, "dict", "redirect", "present", "absent"),
      Answer("http", 200, "dict", "stream", "empty", "absent") }

ResolveShuffles ==
    { COBALT_INSTANCES,
      [i \in 1..Len(COBALT_INSTANCES) |->
          COBALT_INSTANCES[Len(COBALT_INSTANCES) + 1 - i]] }

\* ytmusic initialised with every pair of search answers, or not initialised.
ResolveSearches ==
    {[ok |-> TRUE, songs |-> a, videos |-> b] :
        a \in SearchAnswers, b \in VideoAnswers}
    \cup {[ok |-> FALSE, songs |-> NotFound, videos |-> NotFound]}

ResolveUpstreams ==
    { World(f.ok, f.songs, f.videos, info, o, ans) :
        f \in ResolveSearches, info \in InfoAnswers, o \in ResolveShuffles,
        ans \in [Instances -> ResolveAnswers] }

ResolveQueries ==
    { <<"A", "b">>,
      <<"h", "t", "t", "p", ":", "/", "/", "y">>,
      <<"h", "t", "t", "p", "s", ":", "/", "/", "y">>,
      <<"H", "T", "T", "P", ":", "/", "/", "y">> }

ResolveThread == "r1"

NextResolve ==
    \/ \E q \in ResolveQueries : Call(ResolveThread, q)
    \/ Scan(ResolveThread)
    \/ Cleanup(ResolveThread)
    \/ Capacity(ResolveThread)
    \/ Lookup(ResolveThread)
    \/ ResolveIn(ResolveThread, ResolveUpstreams)
    \/ Insert(ResolveThread)
    \/ Store(ResolveThread)

-----------------------------------------------------------------------------
(* The request handlers stream_music, stream_pcm, esp32_stream, api_music, *)
(* download_music and clear_cache, one request after another.  Message     *)
(* texts are written without their diacritics and emoji.                   *)

QueryRoutes == {"/stream", "/api/music", "/download"}
SongRoutes == {"/stream_pcm", "/esp32_stream"}

YOUTUBE == <<"y", "o", "u", "t", "u", "b", "e">>
Unknown == <<"U", "n", "k", "n", "o", "w", "n">>

\* request.args: a parameter that is missing reads as ''.
Args(q, song, singer) == [q |-> q, song |-> song, singer |-> singer]

QParams == { <<>>, <<" ", "\t">>, <<" ", "A", "b", " ">> }
SongParams == { <<" ">>, <<"A", " ">>, <<"A", "&", "+", " ", "%", "=", "b">> }
SingerParams == { <<>>, <<" ", "b">>, <<"Y", "o", "u", "T", "u", "b", "e", " ">> }

Requests ==
    {[route |-> r, args |-> Args(q, <<>>, <<>>)] : r \in QueryRoutes, q \in QParams}
    \cup {[route |-> r, args |-> Args(<<>>, a, b)] :
            r \in SongRoutes, a \in SongParams, b \in SingerParams}
    \cup {[route |-> "/clear_cache", args |-> Args(<<>>, <<>>, <<>>)]}

\* query = song; if singer and singer.lower() != "youtube":
\*     query = f"{song} {singer}"
compose_query_case_sensitive(song, singer) ==
    IF singer # <<>> /\ singer # YOUTUBE THEN song \o <<" ">> \o singer ELSE song
compose_query(song, singer) ==
    IF singer # <<>> /\ lower(singer) # YOUTUBE
    THEN song \o <<" ">> \o singer
    ELSE song

\* request.args.get(name, '').strip()
arg_unstripped(r, name) == r.args[name]
arg(r, name) == strip(r.args[name])

\* The query a handler asks get_direct_stream_url for (<<>>: the handler
\* answers 400 before).
effective_query(r) ==
    IF r.route \in QueryRoutes THEN arg(r, "q")
    ELSE IF arg(r, "song") = <<>> THEN <<>>
    ELSE compose_query(arg(r, "song"), arg(r, "singer"))

\* A response: the status, the kind of body ("text", "json", or "stream"
\* for Response(generate())), and the fields of a JSON body.  A message is
\* <<text>> or <<text, query>>; "" is <<>>.  The message of clear_cache is
\* <<count>>, the number in it.
Response(status, body, error, title, artist, url) ==
    [status |-> status, body |-> body, error |-> error, title |-> title,
     artist |-> artist, audio_url |-> url, lyric_url |-> <<>>,
     message |-> <<>>, cache_size |-> 0]

NoResponse == Response(0, "", <<>>, <<>>, <<>>, <<>>)

\* @app.errorhandler(500): the answer of Flask when a handler raised
internal_error ==
    [Response(500, "json", <<"Internal Server Error">>, <<>>, <<>>, <<>>) EXCEPT
        !.message = <<"Da xay ra loi server">>]

\* if not query: return ..., 400
missing_query(r) ==
    IF r.route = "/stream"
    THEN Response(400, "text", <<"Thieu ten bai hat. Su dung: /stream?q=ten_bai_hat">>,
                  <<>>, <<>>, <<>>)
    ELSE IF r.route = "/stream_pcm"
    THEN Response(400, "json", <<"Thieu tham so song">>, <<>>, <<>>, <<>>)
    ELSE IF r.route = "/esp32_stream"
    THEN Response(400, "text", <<"Missing song parameter">>, <<>>, <<>>, <<>>)
    ELSE IF r.route = "/api/music"
    THEN Response(400, "json", <<"Thieu ten bai hat">>, <<>>, <<>>, <<>>)
    ELSE Response(400, "text", <<"Thieu ten bai hat">>, <<>>, <<>>, <<>>)

\* if not audio_url: return ..., 404
song_not_found_streams(r, query_) ==
    Response(404, "stream", <<"Khong tim thay bai hat: ", query_>>,
             arg(r, "song"), arg(r, "singer"), <<>>)
song_not_found_unknown_artist(r, query_) ==
    Response(404, "json", <<"Khong tim thay bai hat: ", query_>>, arg(r, "song"),
             IF arg(r, "singer") # <<>> THEN arg(r, "singer") ELSE Unknown, <<>>)
song_not_found(r, query_) ==
    IF r.route = "/stream"
    THEN Response(404, "text", <<"Khong tim thay bai hat: ", query_>>, <<>>, <<>>, <<>>)
    ELSE IF r.route = "/stream_pcm"
    THEN Response(404, "json", <<"Khong tim thay bai hat: ", query_>>,
                  arg(r, "song"), arg(r, "singer"), <<>>)
    ELSE IF r.route = "/esp32_stream"
    THEN Response(404, "text", <<"Song not found">>, <<>>, <<>>, <<>>)
    ELSE IF r.route = "/api/music"
    THEN Response(404, "json", <<"Khong tim thay bai hat: ", query_>>, <<>>, <<>>, <<>>)
    ELSE Response(404, "text", <<"Khong tim thay bai hat">>, <<>>, <<>>, <<>>)

\* urllib.parse.quote(s): letters, digits and the characters _ . - ~ / are
\* kept, every other character is written as % and two hexadecimal digits.
\* The table has the characters of the requests here that are not kept.
PercentCode ==
    [c \in {" ", "\t", "&", "+", "%", "=", ":"} |->
        CASE c = " " -> <<"%", "2", "0">>
          [] c = "\t" -> <<"%", "0", "9">>
          [] c = "&" -> <<"%", "2", "6">>
          [] c = "+" -> <<"%", "2", "B">>
          [] c = "%" -> <<"%", "2", "5">>
          [] c = "=" -> <<"%", "3", "D">>
          [] c = ":" -> <<"%", "3", "A">>]

\* quote that leaves + as it is
RECURSIVE quote_keeps_plus(_)
quote_keeps_plus(s) ==
    IF s = <<>> THEN <<>>
    ELSE (IF Head(s) \in DOMAIN PercentCode \ {"+"}
          THEN PercentCode[Head(s)] ELSE <<Head(s)>>) \o quote_keeps_plus(Tail(s))

RECURSIVE quote(_)
quote(s) ==
    IF s = <<>> THEN <<>>
    ELSE (IF Head(s) \in DOMAIN PercentCode
          THEN PercentCode[Head(s)] ELSE <<Head(s)>>) \o quote(Tail(s))

HOST == <<"h", "o", "s", "t">>
ESP32_STREAM == <<"/", "e", "s", "p", "3", "2", "_", "s", "t", "r", "e", "a", "m">>
SONG == <<"s", "o", "n", "g">>
SINGER == <<"s", "i", "n", "g", "e", "r">>

\* f"http://{request.host}/esp32_stream?song={urllib.parse.quote(song)}
\*   &singer={urllib.parse.quote(singer)}"
stream_url(song, singer) ==
    HTTP \o HOST \o ESP32_STREAM \o <<"?">> \o SONG \o <<"=">> \o quote(song)
         \o <<"&">> \o SINGER \o <<"=">> \o quote(singer)

\* The characters a %XX escape stands for
Decoded(code) == {c \in DOMAIN PercentCode : PercentCode[c] = code}

\* The decoding of a name or a value of the query string: + is a space, a
\* %XX escape is its character, anything else is kept.
RECURSIVE unquote_plus(_)
unquote_plus(s) ==
    IF s = <<>> THEN <<>>
    ELSE IF Head(s) = "+" THEN <<" ">> \o unquote_plus(Tail(s))
    ELSE IF Head(s) = "%" /\ Len(s) >= 3 /\ Decoded(SubSeq(s, 1, 3)) # {}
    THEN <<CHOOSE c \in Decoded(SubSeq(s, 1, 3)) : TRUE>>
            \o unquote_plus(SubSeq(s, 4, Len(s)))
    ELSE <<Head(s)>> \o unquote_plus(Tail(s))

\* s.find(c) from position i on, 0 when c is not there
RECURSIVE find(_, _, _)
find(s, c, i) ==
    IF i > Len(s) THEN 0 ELSE IF s[i] = c THEN i ELSE find(s, c, i + 1)

\* s.split(c)
RECURSIVE split(_, _)
split(s, c) ==
    LET i == find(s, c, 1)
    IN  IF i = 0 THEN <<s>>
        ELSE <<SubSeq(s, 1, i - 1)>> \o split(SubSeq(s, i + 1, Len(s)), c)

\* One name=value part of the query string, decoded
query_pair(part) ==
    LET i == find(part, "=", 1)
    IN  IF i = 0 THEN [name |-> unquote_plus(part), value |-> <<>>]
        ELSE [name |-> unquote_plus(SubSeq(part, 1, i - 1)),
              value |-> unquote_plus(SubSeq(part, i + 1, Len(part)))]

\* request.args.get(name, '') for the query string qs
args_get(qs, name) ==
    LET parts == split(qs, "&")
        hits == {i \in 1..Len(parts) : query_pair(parts[i]).name = name}
    IN  IF hits = {} THEN <<>>
        ELSE query_pair(parts[CHOOSE i \in hits : \A j \in hits : i <= j]).value

\* The request a client makes that fetches url from this server: the route
\* is the path, request.args the decoded query string.
url_request(url) ==
    LET q == find(url, "?", 1)
        path == IF q = 0 THEN url ELSE SubSeq(url, 1, q - 1)
        qs == IF q = 0 THEN <<>> ELSE SubSeq(url, q + 1, Len(url))
    IN  [route |-> IF path = HTTP \o HOST \o ESP32_STREAM THEN "/esp32_stream" ELSE "",
         args |-> Args(args_get(qs, <<"q">>), args_get(qs, SONG), args_get(qs, SINGER))]

\* get_video_info: title and artist of the info, or 'Unknown' for both when
\* the extraction raises.
VideoInfos ==
    { [title |-> <<"T">>, artist |-> <<"R">>],
      [title |-> Unknown, artist |-> Unknown] }

\* The answer of a handler whose resolution gave audio_url.
found_audio(r, url, info) ==
    IF r.route \in {"/stream", "/esp32_stream", "/download"}
    THEN Response(200, "stream", <<>>, <<>>, <<>>, <<url>>)
    ELSE IF r.route = "/stream_pcm"
    THEN Response(200, "json", <<>>, info.title,
                  IF arg(r, "singer") # <<>> /\ info.artist = Unknown
                  THEN arg(r, "singer") ELSE info.artist,
                  stream_url(arg(r, "song"), arg(r, "singer")))
    ELSE Response(200, "json", <<>>, info.title, info.artist, <<url>>)

\* update_stats('stream', ...) is called by /stream, /stream_pcm and
\* /esp32_stream only.
counts_streams(r) == r.route \in {"/stream", "/stream_pcm", "/esp32_stream"}

InitHandler ==
    /\ request = [p \in Procs |-> [route |-> "", args |-> Args(<<>>, <<>>, <<>>)]]
    /\ response = [p \in Procs |-> NoResponse]
    /\ follows = [p \in Procs |-> FALSE]

\* clear_cache(): stream_cache.clear(), and the answer with the count
ClearCache(p) ==
    /\ response' = [response EXCEPT ![p] =
            [Response(200, "json", <<>>, <<>>, <<>>, <<>>) EXCEPT
                !.message = <<count[p]>>,
                !.cache_size = 0]]
    /\ clear_cache(p)
    /\ UNCHANGED <<request, follows>>

\* if not query: return ..., 400
Refuse(p, r) ==
    /\ response' = [response EXCEPT ![p] = missing_query(r)]
    /\ pc' = [pc EXCEPT ![p] = "answered"]
    /\ UNCHANGED <<clock, ticks, stream_cache, SERVER_STATS, ncalls, query,
                   current_time, scan_len, expired_keys, audio_url, ret, served,
                   calls, upstream, youtube_link, caller, to_remove, deleted, time_read, count, cache_time>>

\* A request arrives: the handler reads its arguments and answers 400, or
\* enters clear_cache(), or calls get_direct_stream_url(query).
Arrive(p, r) ==
    /\ pc[p] = "idle"
    /\ \A o \in Procs : pc[o] = "idle" => ~ThreadBefore(o, p)
    /\ request' = [request EXCEPT ![p] = r]
    /\ IF r.route = "/clear_cache" THEN enter_clear_cache(p) /\ UNCHANGED response
       ELSE IF effective_query(r) = <<>> THEN Refuse(p, r)
       ELSE Call(p, effective_query(r)) /\ UNCHANGED response

\* A request of any client.
Request(p, r) == Arrive(p, r) /\ UNCHANGED follows

\* The client of /stream_pcm requests the audio_url of the answer it got.
Follow(p) ==
    \E o \in Procs \ {p} :
        /\ pc[o] = "answered"
        /\ request[o].route = "/stream_pcm"
        /\ response[o].status = 200
        /\ Arrive(p, url_request(response[o].audio_url))
        /\ follows' = [follows EXCEPT ![p] = TRUE]

\* get_direct_stream_url has returned to /stream, /stream_pcm or
\* /esp32_stream: update_stats('stream', success=False) when audio_url is
\* falsy (lines 1177, 1300, 1357), update_stats('stream', success=True)
\* otherwise (lines 1181, 1309, 1361).  The stream is counted; the handler
\* has not answered yet.
Count(p) ==
    /\ pc[p] = "done"
    /\ ret[p].status = "returned"
    /\ counts_streams(request[p])
    /\ SERVER_STATS' = update_stats(SERVER_STATS, "stream", truthy(ret[p].value))
    /\ pc' = [pc EXCEPT ![p] = "counted"]
    /\ UNCHANGED <<clock, ticks, stream_cache, ncalls, query, current_time,
                   scan_len, expired_keys, audio_url, ret, served, calls,
                   upstream, youtube_link, caller, to_remove, deleted, time_read, count,
                   cache_time, request, response, follows>>

\* The handler answers: 500 (Flask) when get_direct_stream_url raised; 404
\* when audio_url is falsy; else get_video_info is called where the handler
\* calls it (/stream_pcm after it counted the stream, /api/music,
\* /download) and the handler returns its response.  /api/music and
\* /download call update_stats nowhere and answer from where
\* get_direct_stream_url returned.
Respond(p) ==
    /\ \/ pc[p] = "counted"
       \/ pc[p] = "done" /\ (ret[p].status # "returned" \/ ~counts_streams(request[p]))
    /\ pc' = [pc EXCEPT ![p] = "answered"]
    /\ IF ret[p].status # "returned"
       THEN response' = [response EXCEPT ![p] = internal_error]
       ELSE IF ~truthy(ret[p].value)
       THEN response' = [response EXCEPT ![p] = song_not_found(request[p], query[p])]
       ELSE \E info \in VideoInfos :
                 response' = [response EXCEPT ![p] =
                                 found_audio(request[p], ret[p].value, info)]
    /\ UNCHANGED <<clock, ticks, stream_cache, SERVER_STATS, ncalls, query,
                   current_time, scan_len, expired_keys, audio_url, ret, served,
                   calls, upstream, youtube_link, caller, to_remove, deleted, time_read,
                   count, cache_time, request, follows>>

NextHandler ==
    \/ \E p \in Procs, r \in Requests : Request(p, r)
    \/ \E p \in Procs : Follow(p)
    \/ \E p \in Procs : Scan(p) /\ UNCHANGED handlerVars
    \/ \E p \in Procs : Cleanup(p) /\ UNCHANGED handlerVars
    \/ \E p \in Procs : Capacity(p) /\ UNCHANGED handlerVars
    \/ \E p \in Procs : Lookup(p) /\ UNCHANGED handlerVars
    \/ \E p \in Procs : Read(p) /\ UNCHANGED handlerVars
    \/ \E p \in Procs : Age(p) /\ UNCHANGED handlerVars
    \/ \E p \in Procs : Resolution(p) /\ UNCHANGED handlerVars
    \/ \E p \in Procs : Insert(p) /\ UNCHANGED handlerVars
    \/ \E p \in Procs : Store(p) /\ UNCHANGED handlerVars
    \/ \E p \in Procs : ClearCache(p)
    \/ \E p \in Procs : Count(p)
    \/ \E p \in Procs : Respond(p)

-----------------------------------------------------------------------------
(* Query normalisation as get_direct_stream_url does it (lines 325, 339) *)

\* (is direct link, cache key) of a query
QueryNormalizer(q) == [direct |-> is_direct_link(q), key |-> cache_key(q)]

Concat4(a, b, c, d) == a \o b \o c \o d

\* The queries normalised: optional scheme in several spellings, a body,
\* optional trailing whitespace.  (No leading whitespace: every handler
\* strips the request parameter before it builds the query.)
NormInputs ==
    { Concat4(lead, scheme, body, trail) :
        lead \in {<<>>},
        scheme \in {<<>>, HTTP, HTTPS,
                    <<"H", "T", "T", "P", ":", "/", "/">>,
                    <<"H", "t", "t", "p", "s", ":", "/", "/">>},
        body \in {<<"y">>, <<"Y">>, <<"A", " ", "b">>},
        trail \in {<<>>, <<" ">>, <<"\t", "\n">>} }

NoNorm == [direct |-> FALSE, key |-> <<>>]

InitNorm ==
    /\ norm_in \in NormInputs
    /\ norm_step = 0
    /\ norm_out = NoNorm
    /\ norm_again = NoNorm

InitNormOff ==
    /\ norm_in = <<>>
    /\ norm_step = 0
    /\ norm_out = NoNorm
    /\ norm_again = NoNorm

\* The query is normalised.
NormalizeQuery ==
    /\ norm_step = 0
    /\ norm_out' = QueryNormalizer(norm_in)
    /\ norm_step' = 1
    /\ UNCHANGED <<norm_in, norm_again>>

\* The stripped, lower-cased query is normalised.
NormalizeNormalized ==
    /\ norm_step = 1
    /\ norm_again' = QueryNormalizer(strip(lower(norm_in)))
    /\ norm_step' = 2
    /\ UNCHANGED <<norm_in, norm_out>>

NextNorm == NormalizeQuery \/ NormalizeNormalized

-----------------------------------------------------------------------------
(* One call of get_audio_stream_from_cobalt_fallback *)

FallbackLink == watch_link(<<"s", "1">>)

InitFallback ==
    /\ fb_pc = "idle"
    /\ fb_order = COBALT_INSTANCES
    /\ fb_answers = <<>>
    /\ fb_result = None
    /\ fb_contacted = <<>>

\* The call: the instances are shuffled, each instance asked answers
\* something, and the loop runs.
FallbackCall ==
    /\ fb_pc = "idle"
    /\ \E o \in Shuffles, ans \in [Instances -> CobaltAnswers] :
        LET r == get_audio_stream_from_cobalt_fallback(FallbackLink, o, ans)
        IN  /\ fb_order' = o
            /\ fb_answers' = ans
            /\ fb_result' = r.url
            /\ fb_contacted' = r.contacted
    /\ fb_pc' = "returned"

NextFallback == FallbackCall

-----------------------------------------------------------------------------
(* One call of get_best_audio_url_ytdlp *)

ExtractLink == watch_link(<<"s", "1">>)

\* A format of the info dict: fmt.get('acodec'), fmt.get('vcodec') and
\* whether fmt.get('url') is truthy.
Formats ==
    [acodec : {"opus", "none", "absent"},
     vcodec : {"none", "vp9", "absent"},
     url : BOOLEAN]

FormatLists == UNION {[1..n -> Formats] : n \in 0..MaxFormats}

\* What ydl.extract_info answers
ExtractInfos ==
    [raises : BOOLEAN,
     url : {"present", "empty", "null", "absent"},
     formats : FormatLists]

NoInfo == [raises |-> TRUE, url |-> "absent", formats |-> <<>>]

InitExtract ==
    /\ yt_pc = "idle"
    /\ yt_info \in ExtractInfos
    /\ yt_result = None

InitExtractOff ==
    /\ yt_pc = "idle"
    /\ yt_info = NoInfo
    /\ yt_result = None

\* The call: extract_info answers yt_info and the URL is selected.
ExtractCall ==
    /\ yt_pc = "idle"
    /\ yt_result' = get_best_audio_url_ytdlp(ExtractLink, yt_info)
    /\ yt_pc' = "returned"
    /\ UNCHANGED yt_info

NextExtract == ExtractCall

-----------------------------------------------------------------------------
(* The streaming generators: generate() of stream_music ("stream"),        *)
(* esp32_stream ("esp32") and download_music ("download").  One block is   *)
(* what one stdout.read(chunk_size) returns.  The server is threaded: every *)
(* request has a generator and an ffmpeg process of its own.  One generator *)
(* at a time is followed statement by statement (gen, process, pipe, ...),  *)
(* and procs keeps the state of the ffmpeg process of every generator that  *)
(* was followed.  Of the generators of the requests answered while that     *)
(* one is live, which share no variable with it, their number and the       *)
(* number of their ffmpeg processes are kept (other_gens, other_procs).     *)

\* process.wait(timeout=2)
GRACE == 2

Kinds == {"stream", "esp32", "download"}

\* The ffmpeg process of the current generator
process == procs[Len(procs)]

\* process.poll() is None
alive(state) == state \in {"running", "closing"}

set_process(state) == [procs EXCEPT ![Len(procs)] = state]

InitStream ==
    /\ cycle = 0
    /\ endpoint = "stream"
    /\ gen = "none"
    /\ outcome = ""
    /\ procs = <<>>
    /\ has_proc = FALSE
    /\ term = FALSE
    /\ written = 0
    /\ pipe = <<>>
    /\ sent = <<>>
    /\ waited = 0
    /\ client = "connected"
    /\ errpipe = "empty"
    /\ errbuf = FALSE
    /\ reader = "none"
    /\ other_gens = 0
    /\ other_procs = 0

\* A new generator: nothing spawned, nothing read, nothing sent.
follow_generator(k) ==
    /\ endpoint' = k
    /\ gen' = "created"
    /\ outcome' = ""
    /\ has_proc' = FALSE
    /\ term' = FALSE
    /\ written' = 0
    /\ pipe' = <<>>
    /\ sent' = <<>>
    /\ waited' = 0
    /\ client' = "connected"
    /\ errpipe' = "empty"
    /\ errbuf' = FALSE
    /\ reader' = "none"
    /\ UNCHANGED procs

\* The generator of the request is the one followed from now on.
follow(k) ==
    /\ gen \in {"none", "ended"}
    /\ follow_generator(k)
    /\ UNCHANGED <<other_gens, other_procs>>

\* The request is answered while the generator followed is live: one more
\* generator beside it.
beside(k) ==
    /\ gen \notin {"none", "ended"}
    /\ other_gens' = other_gens + 1
    /\ UNCHANGED <<endpoint, gen, outcome, procs, has_proc, term, written, pipe,
                   sent, waited, client, errpipe, errbuf, reader, other_procs>>

\* A handler resolved its query and returns Response(generate()).
StartSession(k) ==
    /\ cycle < MaxCycles
    /\ cycle' = cycle + 1
    /\ follow(k) \/ beside(k)

\* A generator beside the one followed runs to its subprocess.Popen, which
\* raises or starts an ffmpeg process.
OtherSpawn ==
    /\ other_gens > 0
    /\ other_gens' = other_gens - 1
    /\ other_procs' \in {other_procs, other_procs + 1}
    /\ UNCHANGED <<cycle, endpoint, gen, outcome, procs, has_proc, term, written,
                   pipe, sent, waited, client, errpipe, errbuf, reader>>

\* The ffmpeg process of a generator beside the one followed exits, or is
\* killed by its generator.
OtherExit ==
    /\ other_procs > 0
    /\ other_procs' = other_procs - 1
    /\ UNCHANGED <<cycle, endpoint, gen, outcome, procs, has_proc, term, written,
                   pipe, sent, waited, client, errpipe, errbuf, reader, other_gens>>

\* The server asks for the first chunk: the generator starts to run.
Begin ==
    /\ gen = "created"
    /\ gen' = "spawn"
    /\ UNCHANGED <<cycle, endpoint, outcome, procs, has_proc, term, written, pipe,
                   sent, waited>>
    /\ UNCHANGED <<client, errpipe, errbuf, reader, other_gens, other_procs>>

\* read_stderr, the thread /stream and /esp32_stream start after Popen;
\* /download starts none.
drains_stderr(k) == k \in {"stream", "esp32"}

\* subprocess.Popen(ffmpeg_cmd, ...) succeeds; /stream and /esp32_stream
\* start the read_stderr thread.
SpawnOk ==
    /\ gen = "spawn"
    /\ procs' = Append(procs, "running")
    /\ has_proc' = TRUE
    /\ gen' = IF endpoint = "download" THEN "read" ELSE "poll"
    /\ reader' = IF drains_stderr(endpoint) THEN "running" ELSE "none"
    /\ UNCHANGED <<cycle, endpoint, outcome, term, written, pipe, sent, waited>>
    /\ UNCHANGED <<client, errpipe, errbuf, other_gens, other_procs>>

\* subprocess.Popen raises: /stream and /esp32_stream catch it and go to the
\* finally block with process = None; in /download the call is outside the
\* try and the generator ends.
SpawnFails ==
    /\ gen = "spawn"
    /\ outcome' = "SubprocessError"
    /\ gen' = IF endpoint = "download" THEN "ended" ELSE "finally"
    /\ UNCHANGED <<cycle, endpoint, procs, has_proc, term, written, pipe, sent, waited>>
    /\ UNCHANGED <<client, errpipe, errbuf, reader, other_gens, other_procs>>

\* /stream: if process.poll() is not None: break
stream_poll ==
    /\ gen' = (IF alive(process) THEN "read" ELSE "finally")
    /\ outcome' = (IF alive(process) THEN outcome ELSE "Completed")
    /\ UNCHANGED <<sent, pipe>>

\* /esp32_stream: if process.poll() is not None: final = process.stdout.read()
esp32_poll_ignores_exit ==
    /\ gen' = "read"
    /\ UNCHANGED <<outcome, sent, pipe>>
esp32_poll ==
    /\ gen' = (IF alive(process) THEN "read" ELSE "drain")
    /\ outcome' = (IF alive(process) THEN outcome ELSE "Completed")
    /\ UNCHANGED <<sent, pipe>>

\* The top of the read loop of /stream and /esp32_stream.
Poll ==
    /\ gen = "poll"
    /\ IF endpoint = "stream" THEN stream_poll ELSE esp32_poll
    /\ UNCHANGED <<cycle, endpoint, procs, has_proc, term, written, waited>>
    /\ UNCHANGED <<client, errpipe, errbuf, reader, other_gens, other_procs>>

\* /esp32_stream: final = process.stdout.read(); if final: yield final; break
Drain ==
    /\ gen = "drain"
    /\ sent' = sent \o pipe
    /\ pipe' = <<>>
    /\ gen' = IF pipe # <<>> THEN "yield_final" ELSE "finally"
    /\ UNCHANGED <<cycle, endpoint, outcome, procs, has_proc, term, written, waited>>
    /\ UNCHANGED <<client, errpipe, errbuf, reader, other_gens, other_procs>>

\* data = process.stdout.read(chunk_size) returns a block, which is yielded.
read_block_again ==
    /\ sent' = Append(sent, Head(pipe))
    /\ UNCHANGED pipe
read_block ==
    /\ sent' = Append(sent, Head(pipe))
    /\ pipe' = Tail(pipe)

ReadData ==
    /\ gen = "read"
    /\ pipe # <<>>
    /\ read_block
    /\ gen' = "yield"
    /\ UNCHANGED <<cycle, endpoint, outcome, procs, has_proc, term, written, waited>>
    /\ UNCHANGED <<client, errpipe, errbuf, reader, other_gens, other_procs>>

\* data = process.stdout.read(chunk_size) returns b'' (ffmpeg closed its
\* stdout and the pipe is empty).  /stream: break if the process has exited,
\* else sleep and continue; /esp32_stream: sleep and continue; /download:
\* break.
breaks_on_any_empty(k, state) == TRUE
breaks_on_empty(k, state) == k = "download" \/ (k = "stream" /\ ~alive(state))

ReadEmpty ==
    /\ gen = "read"
    /\ pipe = <<>>
    /\ process # "running"
    /\ IF breaks_on_empty(endpoint, process)
       THEN gen' = "finally" /\ outcome' = "Completed"
       ELSE gen' = "sleep" /\ UNCHANGED outcome
    /\ UNCHANGED <<cycle, endpoint, procs, has_proc, term, written, pipe, sent, waited>>
    /\ UNCHANGED <<client, errpipe, errbuf, reader, other_gens, other_procs>>

\* time.sleep(...) returns; continue
Sleep ==
    /\ gen = "sleep"
    /\ gen' = "poll"
    /\ UNCHANGED <<cycle, endpoint, outcome, procs, has_proc, term, written, pipe,
                   sent, waited, client, errpipe, errbuf, reader, other_gens,
                   other_procs>>

\* process.stdout.read raises: the loop ends (except Exception in /stream
\* and /download; in /esp32_stream the inner except and break for
\* read(chunk_size), the outer except Exception for the final read()).
ReadErrorRespawns ==
    /\ gen \in {"read", "drain"}
    /\ outcome' = "SubprocessError"
    /\ gen' = "spawn"
    /\ UNCHANGED <<cycle, endpoint, procs, has_proc, term, written, pipe, sent, waited>>
    /\ UNCHANGED <<client, errpipe, errbuf, reader, other_gens, other_procs>>
ReadError ==
    /\ gen \in {"read", "drain"}
    /\ outcome' = "SubprocessError"
    /\ gen' = "finally"
    /\ UNCHANGED <<cycle, endpoint, procs, has_proc, term, written, pipe, sent, waited>>
    /\ UNCHANGED <<client, errpipe, errbuf, reader, other_gens, other_procs>>

\* The server took the chunk and asks for the next one.
Pull ==
    /\ gen \in {"yield", "yield_final"}
    /\ gen' = (IF gen = "yield_final" THEN "finally"
               ELSE IF endpoint = "download" THEN "read" ELSE "poll")
    /\ UNCHANGED <<cycle, endpoint, outcome, procs, has_proc, term, written, pipe,
                   sent, waited>>
    /\ UNCHANGED <<client, errpipe, errbuf, reader, other_gens, other_procs>>

\* The client goes away while the response is being produced.
Disconnect ==
    /\ gen \notin {"none", "ended"}
    /\ client = "connected"
    /\ client' = "gone"
    /\ UNCHANGED <<cycle, endpoint, gen, outcome, procs, has_proc, term, written,
                   pipe, sent, waited, errpipe, errbuf, reader, other_gens, other_procs>>

\* The server fails to send a chunk to a client that went away and closes
\* the generator: GeneratorExit is raised at the yield.
Close ==
    /\ gen \in {"yield", "yield_final"}
    /\ client = "gone"
    /\ outcome' = "ClientDisconnected"
    /\ gen' = "finally"
    /\ UNCHANGED <<cycle, endpoint, procs, has_proc, term, written, pipe, sent, waited>>
    /\ UNCHANGED <<client, errpipe, errbuf, reader, other_gens, other_procs>>

\* finally: if process: process.terminate()
Terminate ==
    /\ gen = "finally"
    /\ IF has_proc
       THEN gen' = "wait" /\ term' = TRUE
       ELSE gen' = "ended" /\ UNCHANGED term
    /\ UNCHANGED <<cycle, endpoint, outcome, procs, has_proc, written, pipe, sent, waited>>
    /\ UNCHANGED <<client, errpipe, errbuf, reader, other_gens, other_procs>>

\* process.wait(...) returns: the process has exited.
WaitDone ==
    /\ gen = "wait"
    /\ ~alive(process)
    /\ gen' = "ended"
    /\ UNCHANGED <<cycle, endpoint, outcome, procs, has_proc, term, written, pipe,
                   sent, waited>>
    /\ UNCHANGED <<client, errpipe, errbuf, reader, other_gens, other_procs>>

\* The seconds process.wait may take: timeout=2 in /stream and
\* /esp32_stream, no timeout in /download.
wait_limit_none(k) == MaxWait
wait_limit(k) == IF k = "download" THEN MaxWait ELSE GRACE

\* One more second passes in process.wait and the process is still there.
WaitSecond ==
    /\ gen = "wait"
    /\ alive(process)
    /\ waited < wait_limit(endpoint)
    /\ waited' = waited + 1
    /\ UNCHANGED <<cycle, endpoint, gen, outcome, procs, has_proc, term, written,
                   pipe, sent>>
    /\ UNCHANGED <<client, errpipe, errbuf, reader, other_gens, other_procs>>

\* /stream and /esp32_stream: process.wait(timeout=2) raises TimeoutExpired
\* and the handler calls process.kill().
WaitTimeout ==
    /\ gen = "wait"
    /\ alive(process)
    /\ endpoint # "download"
    /\ waited >= wait_limit(endpoint)
    /\ procs' = set_process("killed")
    /\ gen' = "ended"
    /\ UNCHANGED <<cycle, endpoint, outcome, has_proc, term, written, pipe, sent, waited>>
    /\ UNCHANGED <<client, errpipe, errbuf, reader, other_gens, other_procs>>

\* stderr=subprocess.PIPE: ffmpeg writes its log and its progress lines to a
\* pipe.  A write to a full pipe waits ("overfull") until the pipe is read.
ffmpeg_waits == errpipe = "overfull"

\* ffmpeg writes a line to its stderr.
WriteStderr ==
    /\ has_proc
    /\ process = "running"
    /\ ~ffmpeg_waits
    /\ errpipe' \in IF errpipe = "full" THEN {"overfull"} ELSE {"partial", "full"}
    /\ UNCHANGED <<cycle, endpoint, gen, outcome, procs, has_proc, term, written,
                   pipe, sent, waited, client, errbuf, reader, other_gens, other_procs>>

\* process.stderr is a buffered reader whose buffer (bufsize) is larger than
\* the pipe: a readline() that finds no complete line in the buffer takes
\* all that is in the pipe into the buffer and returns the first line; the
\* lines after it stay in the buffer, and the next readline() returns one
\* of them without reading the pipe.  more: a line is left in the buffer.
readline(more) ==
    /\ IF errbuf
       THEN UNCHANGED errpipe
       ELSE errpipe # "empty" /\ errpipe' = "empty"
    /\ errbuf' = more

\* read_stderr: line = process.stderr.readline() returns a line, from the
\* buffer or from the pipe, also when ffmpeg has exited while the thread
\* was in readline().  (A thread that found process.poll() is None false
\* reads no more.)
ReadStderr ==
    /\ has_proc
    /\ reader = "running"
    /\ \E more \in BOOLEAN : readline(more)
    /\ UNCHANGED <<cycle, endpoint, gen, outcome, procs, has_proc, term, written,
                   pipe, sent, waited, client, reader, other_gens, other_procs>>

\* read_stderr: the line read, from the buffer or from the pipe, cannot be
\* decoded, or logging it raises: `except: pass`, and the thread is over.
\* No line of the buffer is for it any more.
ReaderError ==
    /\ has_proc
    /\ reader = "running"
    /\ readline(FALSE)
    /\ reader' = "failed"
    /\ UNCHANGED <<cycle, endpoint, gen, outcome, procs, has_proc, term, written,
                   pipe, sent, waited, client, other_gens, other_procs>>

\* ffmpeg writes one more block to its stdout.
Write ==
    /\ has_proc
    /\ process = "running"
    /\ ~ffmpeg_waits
    /\ written < MaxBlocks
    /\ written' = written + 1
    /\ pipe' = Append(pipe, written + 1)
    /\ UNCHANGED <<cycle, endpoint, gen, outcome, procs, has_proc, term, sent, waited>>
    /\ UNCHANGED <<client, errpipe, errbuf, reader, other_gens, other_procs>>

\* ffmpeg is done: it closes its stdout ...
CloseStdout ==
    /\ has_proc
    /\ process = "running"
    /\ ~ffmpeg_waits
    /\ procs' = set_process("closing")
    /\ UNCHANGED <<cycle, endpoint, gen, outcome, has_proc, term, written, pipe, sent,
                   waited>>
    /\ UNCHANGED <<client, errpipe, errbuf, reader, other_gens, other_procs>>

\* ... and exits; or it exits because of the SIGTERM it was sent.
Exit ==
    /\ has_proc
    /\ process = "closing" \/ (process = "running" /\ term)
    /\ procs' = set_process("exited")
    /\ UNCHANGED <<cycle, endpoint, gen, outcome, has_proc, term, written, pipe, sent,
                   waited>>
    /\ UNCHANGED <<client, errpipe, errbuf, reader, other_gens, other_procs>>

GeneratorStep ==
    \/ SpawnOk
    \/ Poll
    \/ Drain
    \/ ReadData
    \/ ReadEmpty
    \/ Sleep
    \/ Terminate
    \/ WaitDone
    \/ WaitSecond
    \/ WaitTimeout

ConsumerStep == Begin \/ Pull \/ Close

\* The steps of the generator followed, of its server thread, of its
\* client, of its ffmpeg and of its read_stderr thread
SessionStep ==
    \/ GeneratorStep
    \/ SpawnFails
    \/ ReadError
    \/ ConsumerStep
    \/ Disconnect
    \/ WriteStderr
    \/ ReadStderr
    \/ ReaderError
    \/ Write
    \/ CloseStdout
    \/ Exit

NextStream ==
    \/ \E k \in Kinds : StartSession(k)
    \/ SessionStep
    \/ OtherSpawn
    \/ OtherExit

-----------------------------------------------------------------------------
(* The streaming handlers together with their generators: what a request  *)
(* and its stream do to SERVER_STATS.                                      *)

\* `except GeneratorExit:` counted as a failed stream
stats_on_disconnect_counts_failure(stats) == update_stats(stats, "stream", FALSE)

\* except GeneratorExit: logger.info(...), and nothing else
stats_on_disconnect(stats) == stats

\* The requests of the runs with generators: one song, asked for on the
\* four routes that resolve a stream (three answer Response(generate()),
\* /stream_pcm answers JSON).
ServeRequests ==
    {[route |-> r, args |-> Args(<<"A", "b">>, <<>>, <<>>)] :
        r \in {"/stream", "/download"}}
    \cup {[route |-> r, args |-> Args(<<>>, <<"A", "b">>, <<>>)] :
            r \in {"/stream_pcm", "/esp32_stream"}}

\* What the upstream services answer in these runs: yt-dlp gives a URL, or
\* the search finds nothing.
ServeUpstreams ==
    { Upstream(TRUE, Found, NotFound, Direct,
               Answer("timeout", 0, "invalid", "", "absent", "absent")),
      Upstream(TRUE, NotFound, NotFound, Direct,
               Answer("timeout", 0, "invalid", "", "absent", "absent")) }

\* The generate() of the route
kind_of(route) ==
    IF route = "/stream" THEN "stream"
    ELSE IF route = "/esp32_stream" THEN "esp32"
    ELSE "download"

\* When the requests of these runs arrive: the first one at the start, a
\* further one when no request is being handled and either no generator
\* has been made or the client of the generator followed has gone away
\* (the generator may still run, be closed, or clean up).
ArrivesServing(p, r) ==
    /\ \A o \in Procs : pc[o] \in {"idle", "answered"}
    /\ gen = "none" \/ client = "gone"
    /\ Request(p, r)
    /\ UNCHANGED streamVars

\* The handler returns its response; Response(generate()) makes the
\* generator of the request.
RespondServing(p) ==
    /\ Respond(p)
    /\ IF response'[p].body = "stream"
       THEN StartSession(kind_of(request[p].route))
       ELSE UNCHANGED streamVars

\* The server closes the generator of a client that went away.
CloseStream ==
    /\ Close
    /\ SERVER_STATS' = stats_on_disconnect(SERVER_STATS)
    /\ UNCHANGED <<clock, ticks, stream_cache, ncalls, pc, query, current_time,
                   scan_len, expired_keys, audio_url, ret, served, calls,
                   upstream, youtube_link, caller, to_remove, deleted,
                   time_read, count, cache_time>>
    /\ UNCHANGED handlerVars

\* Every other step of the generator, of the server and of ffmpeg
StreamStep ==
    /\ \/ GeneratorStep
       \/ SpawnFails
       \/ ReadError
       \/ Begin
       \/ Pull
       \/ Disconnect
       \/ WriteStderr
       \/ ReadStderr
       \/ ReaderError
       \/ Write
       \/ CloseStdout
       \/ Exit
       \/ OtherSpawn
       \/ OtherExit
    /\ UNCHANGED <<cacheVars, handlerVars>>

\* The request threads, from the arrival of a request to the answer of its
\* handler, and the generators of the answers.  (No second passes in these
\* runs and the cache stays small: no entry is stale and none is evicted.)
NextServe ==
    \/ \E p \in Procs, r \in ServeRequests : ArrivesServing(p, r)
    \/ \E p \in Procs : Scan(p) /\ UNCHANGED <<handlerVars, streamVars>>
    \/ \E p \in Procs : Cleanup(p) /\ UNCHANGED <<handlerVars, streamVars>>
    \/ \E p \in Procs : Capacity(p) /\ UNCHANGED <<handlerVars, streamVars>>
    \/ \E p \in Procs : Lookup(p) /\ UNCHANGED <<handlerVars, streamVars>>
    \/ \E p \in Procs : Read(p) /\ UNCHANGED <<handlerVars, streamVars>>
    \/ \E p \in Procs : Age(p) /\ UNCHANGED <<handlerVars, streamVars>>
    \/ \E p \in Procs : ResolveIn(p, ServeUpstreams) /\ UNCHANGED <<handlerVars, streamVars>>
    \/ \E p \in Procs : Insert(p) /\ UNCHANGED <<handlerVars, streamVars>>
    \/ \E p \in Procs : Store(p) /\ UNCHANGED <<handlerVars, streamVars>>
    \/ \E p \in Procs : Count(p) /\ UNCHANGED streamVars
    \/ \E p \in Procs : RespondServing(p)
    \/ CloseStream
    \/ StreamStep

-----------------------------------------------------------------------------
(* Specifications *)

Init == InitCache /\ InitNormOff /\ InitFallback /\ InitExtractOff /\ InitStream /\ InitHandler
Next == NextCache /\ UNCHANGED <<normVars, fbVars, ytVars, streamVars, handlerVars>>
Spec == Init /\ [][Next]_vars

InitNormalizing ==
    /\ InitThreads /\ stream_cache = <<>> /\ InitNorm /\ InitFallback /\ InitExtractOff /\ InitStream
    /\ InitHandler

NextNormalizing ==
    NextNorm /\ UNCHANGED <<cacheVars, fbVars, ytVars, streamVars, handlerVars>>

SpecNorm == InitNormalizing /\ [][NextNormalizing]_vars

InitFallingBack ==
    /\ InitThreads /\ stream_cache = <<>> /\ InitNormOff /\ InitFallback /\ InitExtractOff /\ InitStream
    /\ InitHandler

NextFallingBack ==
    NextFallback /\ UNCHANGED <<cacheVars, normVars, ytVars, streamVars, handlerVars>>

SpecFallback == InitFallingBack /\ [][NextFallingBack]_vars

InitExtracting ==
    /\ InitThreads /\ stream_cache = <<>> /\ InitNormOff /\ InitFallback /\ InitExtract /\ InitStream
    /\ InitHandler

NextExtracting ==
    NextExtract /\ UNCHANGED <<cacheVars, normVars, fbVars, streamVars, handlerVars>>

SpecExtract == InitExtracting /\ [][NextExtracting]_vars

InitResolving ==
    /\ InitThreads /\ stream_cache = <<>> /\ InitNormOff /\ InitFallback /\ InitExtractOff /\ InitStream
    /\ InitHandler

NextResolving ==
    NextResolve /\ UNCHANGED <<normVars, fbVars, ytVars, streamVars, handlerVars>>

\* The cache one second after a request for q that resolved against w.
cached_request(q, w) ==
    <<[key |-> cache_key(q), time |-> MAX_CACHE_SIZE, url |-> resolution(q, w).url]>>

\* The server starts with an empty cache; the other starts are the states
\* after one successful request for "Ab".
InitHandling ==
    /\ InitThreads
    /\ stream_cache \in {<<>>} \cup
            {cached_request(<<"A", "b">>, w) :
                w \in {u \in Upstreams : truthy(resolution(<<"A", "b">>, u).url)}}
    /\ InitNormOff /\ InitFallback /\ InitExtractOff /\ InitStream
    /\ InitHandler

NextHandling == NextHandler /\ UNCHANGED <<normVars, fbVars, ytVars, streamVars>>

SpecHandler == InitHandling /\ [][NextHandling]_vars

SpecResolve == InitResolving /\ [][NextResolving]_vars

InitStreaming ==
    /\ InitThreads /\ stream_cache = <<>> /\ InitNormOff /\ InitFallback /\ InitExtractOff /\ InitStream
    /\ InitHandler

NextStreaming == NextStream /\ UNCHANGED <<cacheVars, normVars, fbVars, ytVars, handlerVars>>

SpecStream == InitStreaming /\ [][NextStreaming]_vars

InitServing ==
    /\ InitThreads /\ stream_cache = <<>> /\ InitNormOff /\ InitFallback /\ InitExtractOff /\ InitStream
    /\ InitHandler

NextServing == NextServe /\ UNCHANGED <<normVars, fbVars, ytVars>>

SpecServe == InitServing /\ [][NextServing]_vars

\* What a generator eventually does: the generator runs whenever it can,
\* and the server either asks for the next chunk or closes the generator;
\* ffmpeg need not do anything.
SpecStreamFair ==
    /\ InitStreaming /\ [][NextStreaming]_vars
    /\ WF_vars(GeneratorStep /\ UNCHANGED <<cacheVars, normVars, fbVars, ytVars, handlerVars>>)
    /\ WF_vars(ConsumerStep /\ UNCHANGED <<cacheVars, normVars, fbVars, ytVars, handlerVars>>)

\* Moreover an ffmpeg that has closed its stdout, or was sent SIGTERM, exits;
\* an ffmpeg that runs need not write, close or exit.
SpecStreamExits ==
    /\ SpecStreamFair
    /\ WF_vars(Exit /\ UNCHANGED <<cacheVars, normVars, fbVars, ytVars, handlerVars>>)

-----------------------------------------------------------------------------
(* Properties of the cache *)

Quiet == \A p \in Procs : pc[p] \in {"idle", "done"}

CacheKeys(cache) == {cache[i].key : i \in 1..Len(cache)}

\* C1 (cache TTL): a lookup in get_direct_stream_url never returns the
\* cached URL of an entry once now - createdAt >= CACHE_DURATION, however
\* many entries the cache holds.
C1_CacheTTL ==
    \A p \in Procs :
        served[p].hit => served[p].at - served[p].created < CACHE_DURATION

\* C1 witness: a lookup found an entry of age >= CACHE_DURATION in a cache
\* below capacity, did not return it and went on to resolve upstream.
C1_Witness ==
    \E p \in Procs :
        /\ served[p].found /\ ~served[p].hit
        /\ served[p].at - served[p].created >= CACHE_DURATION
        /\ calls[p] # <<>>
        /\ Len(stream_cache) < MAX_CACHE_SIZE

CacheTimes(cache) == {cache[i].time : i \in 1..Len(cache)}

ReturnsFromCleanup(p) ==
    pc[p] \in {"capacity", "evict"} /\ pc'[p] \in {"lookup", "status"}

\* p computes keys_to_remove in this step (lines 149-150)
Sorts(p) == pc[p] = "sort" /\ pc'[p] = "evict"

\* p's capacity loop deletes a key in this step (line 152)
EvictsOne(p) == pc[p] = "evict" /\ deleted'[p] = deleted[p] + 1

\* The keys of seq
KeySet(seq) == {seq[j] : j \in 1..Len(seq)}

C2_CleanupReturns(p) ==
    /\ ReturnsFromCleanup(p) => Len(stream_cache') <= MAX_CACHE_SIZE
    /\ Sorts(p) =>
        LET chosen == SelectSeq(stream_cache, LAMBDA e : e.key \in KeySet(to_remove'[p]))
            kept == SelectSeq(stream_cache, LAMBDA e : e.key \notin KeySet(to_remove'[p]))
        IN  IF Len(stream_cache) <= MAX_CACHE_SIZE
            THEN to_remove'[p] = <<>>
            ELSE /\ Len(to_remove'[p]) = Len(stream_cache) - MAX_CACHE_SIZE
                 /\ Len(chosen) = Len(to_remove'[p])
                 /\ \A t \in CacheTimes(chosen) : \A u \in CacheTimes(kept) : t <= u
    /\ EvictsOne(p) =>
        /\ Len(stream_cache) > MAX_CACHE_SIZE
        /\ stream_cache' =
              SelectSeq(stream_cache, LAMBDA e : e.key # to_remove[p][deleted[p] + 1])
    /\ ReturnsFromCleanup(p) /\ pc[p] = "evict" =>
        \A k \in KeySet(to_remove[p]) : ~has_key(stream_cache', k)

\* C2 (cache capacity): when cleanup_cache returns the cache holds at most
\* MAX_CACHE_SIZE entries; the capacity step chooses exactly the
\* (size - MAX_CACHE_SIZE) entries that have the smallest creation times,
\* never an entry while it keeps an older one, and chooses nothing when
\* size <= MAX_CACHE_SIZE; each turn of its loop deletes one chosen entry of
\* a cache over its capacity and keeps the others as they were, and when
\* cleanup_cache returns the chosen entries are gone.
C2_CacheCapacity == [][\A p \in Procs : C2_CleanupReturns(p)]_vars

\* The capacity loop of one thread deletes an entry of a cache that another
\* thread has brought down to MAX_CACHE_SIZE entries or fewer since the
\* test of line 148.
C2_EvictsUnderCapacity(p) ==
    /\ EvictsOne(p)
    /\ Len(stream_cache) <= MAX_CACHE_SIZE
    /\ Len(stream_cache') < Len(stream_cache)

C2_NothingEvictedUnderCapacity ==
    [][\A p \in Procs : ~C2_EvictsUnderCapacity(p)]_vars

\* C3 as claimed (cache size invariant): between requests, after any
\* sequence of resolution requests, the cache holds at most MAX_CACHE_SIZE
\* entries.
C3_SizeAtMostCapacity ==
    ncalls > 0 /\ Quiet => Len(stream_cache) <= MAX_CACHE_SIZE

\* Requests are handled one after another: at most one thread is between
\* the arrival of its request and its return.
OneAtATime ==
    Cardinality({p \in Procs : pc[p] \notin {"idle", "done"}}) <= 1

\* cleanup_cache of p has returned and p has not acted since.
BackFromCleanup(p) == pc[p] \in {"lookup", "status"}

\* C3 as amended: the cache never holds more than MAX_CACHE_SIZE entries
\* plus one per request thread; and as long as the requests are handled
\* one after another it never holds more than MAX_CACHE_SIZE + 1 entries,
\* between requests included, and holds at most MAX_CACHE_SIZE at the
\* moment cleanup_cache returns.
C3_SizeBound ==
    /\ [](Len(stream_cache) <= MAX_CACHE_SIZE + Cardinality(Procs))
    /\ ([]OneAtATime =>
          [](/\ Len(stream_cache) <= MAX_CACHE_SIZE + 1
             /\ \A p \in Procs :
                    BackFromCleanup(p) => Len(stream_cache) <= MAX_CACHE_SIZE))

\* C3 witness: between requests, after two concurrent requests on a cache
\* of MAX_CACHE_SIZE + 1 entries, the first of which evicted the oldest
\* entry, the cache holds MAX_CACHE_SIZE + 2 entries.
C3_Witness ==
    /\ Quiet
    /\ ncalls = Cardinality(Procs)
    /\ ~has_key(stream_cache, earlier_key(0))
    /\ Len(stream_cache) = MAX_CACHE_SIZE + Cardinality(Procs)

-----------------------------------------------------------------------------
(* Properties of the query normalisation *)

\* C4 (idempotent normalization): for every non-empty query s, normalising
\* s and normalising trim(lower(s)) give the same cache key and the same
\* direct-link / free-text classification.
C4_IdempotentNormalization ==
    norm_step = 2 /\ norm_in # <<>> => norm_out = norm_again

-----------------------------------------------------------------------------
(* Properties of the Cobalt fallback *)

\* The values of a field that can be sliced: a string (a URL or the empty
\* string) or a JSON array (empty or not).
Sliceable == {"present", "empty", "array", "empty_array"}

\* An instance succeeds: status 200 and a JSON object with a url field
\* that holds a string or an array or, without a url field, such an audio
\* field.
Succeeds(a) ==
    /\ a.kind = "http" /\ a.status_code = 200 /\ a.json = "dict"
    /\ IF a.url # "absent" THEN a.url \in Sliceable
       ELSE a.audio \in Sliceable

\* What a succeeding instance gives: what its url field holds, or without
\* a url field what its audio field holds (a URL, the empty string, or the
\* array as a list).
InstanceUrl(a, instance) ==
    LET field == IF a.url # "absent" THEN "url" ELSE "audio"
    IN  IF a[field] = "present" THEN Url(FallbackLink, instance, field)
        ELSE IF a[field] = "empty" THEN EmptyUrl
        ELSE IF a[field] = "array"
        THEN [src |-> FallbackLink, via |-> instance,
              field |-> IF field = "url" THEN "[url]" ELSE "[audio]"]
        ELSE [src |-> NoLink, via |-> "empty list", field |-> ""]

FirstToSucceed(k) ==
    /\ k \in 1..Len(fb_order)
    /\ Succeeds(fb_answers[fb_order[k]])
    /\ \A j \in 1..(k - 1) : ~Succeeds(fb_answers[fb_order[j]])

\* C5 (fallback ordering): when instance k is the first in the shuffled
\* order to succeed, the call returns instance k's URL, every instance
\* before k was contacted exactly once, and no instance after k is
\* contacted.
C5_FallbackOrdering ==
    fb_pc = "returned" =>
        \A k \in 1..Len(fb_order) :
            FirstToSucceed(k) =>
                /\ fb_result = InstanceUrl(fb_answers[fb_order[k]], fb_order[k])
                /\ fb_contacted = SubSeq(fb_order, 1, k)

\* C5 witness: the call returned the URL of the third instance of an order
\* that is not the listed one, after two failures of different kinds; the
\* fourth instance, which would have succeeded too, was not contacted.
C5_Witness ==
    /\ fb_pc = "returned"
    /\ fb_order # COBALT_INSTANCES
    /\ FirstToSucceed(3)
    /\ fb_answers[fb_order[1]].kind = "timeout"
    /\ fb_answers[fb_order[2]].status_code = 500
    /\ Succeeds(fb_answers[fb_order[4]])
    /\ truthy(fb_result)
    /\ Len(fb_contacted) = 3

-----------------------------------------------------------------------------
(* Properties of the streaming generators *)

Streaming == endpoint \in {"stream", "esp32"}

\* The state of the session in the words of the specification.
Phase ==
    CASE gen \in {"none", "created"} -> "New"
      [] gen = "spawn" -> "Starting"
      [] gen \in {"poll", "read", "sleep", "yield"} -> "Streaming"
      [] gen \in {"drain", "yield_final"} -> "Completed"
      [] gen \in {"finally", "wait"} -> outcome
      [] gen = "ended" -> "Terminated"

NoLeak == \A i \in 1..Len(procs) : ~alive(procs[i])

\* C6: in /stream and /esp32_stream, once the client is gone the generator
\* asks ffmpeg to terminate, waits for it no longer than the grace period,
\* kills it only after that period, and when the generator has finished no
\* ffmpeg process of this or of an earlier request is still running.
C6_CancellationCleanup ==
    Streaming =>
        /\ waited <= GRACE
        /\ outcome = "ClientDisconnected" /\ gen \in {"wait", "ended"} => term
        /\ has_proc /\ process = "killed" => term /\ waited = GRACE
        /\ gen = "ended" => NoLeak

C6_Witness ==
    /\ Streaming
    /\ cycle = MaxCycles
    /\ Len(procs) = MaxCycles
    /\ gen = "ended"
    /\ outcome = "ClientDisconnected"
    /\ process = "killed"
    /\ sent # <<>>

\* C7: on every way out of a generator, /download included, ffmpeg is asked
\* to terminate and killed after the grace period, so that the cleanup
\* never waits longer than the grace period and leaves no process behind.
C7_ReapedOnEveryExit ==
    /\ waited <= GRACE
    /\ gen \in {"wait", "ended"} /\ has_proc => term
    /\ gen = "ended" => NoLeak

\* C8: in /stream and /esp32_stream, when ffmpeg has exited by itself and
\* the generator has finished as Completed, every block ffmpeg wrote has
\* been forwarded.
C8_CompletedDrainsOutput ==
    Streaming /\ gen = "ended" /\ outcome = "Completed" => Len(sent) = written

Started == Streaming /\ gen \notin {"none", "created", "ended"}

ProcessExited == has_proc /\ ~alive(process)

\* Every started session comes to Terminated once ffmpeg has exited or the
\* client is gone: none stays Streaming after ffmpeg has exited.
EventuallyTerminated ==
    (Started /\ (ProcessExited \/ outcome = "ClientDisconnected"))
        ~> (gen = "ended" /\ Phase = "Terminated")

Lifecycle ==
    {<<"New", "Starting">>, <<"Starting", "Streaming">>,
     <<"Streaming", "Completed">>, <<"Streaming", "ClientDisconnected">>,
     <<"Streaming", "SubprocessError">>, <<"Completed", "Terminated">>,
     <<"ClientDisconnected", "Terminated">>,
     <<"SubprocessError", "Terminated">>, <<"Terminated", "New">>}

\* C9 as stated: a session of /stream or /esp32_stream only moves
\* Starting -> Streaming -> {Completed | ClientDisconnected |
\* SubprocessError} -> Terminated, and it ends eventually.
C9_SessionStateMachine ==
    /\ [][Streaming' => Phase' = Phase \/ <<Phase, Phase'>> \in Lifecycle]_vars
    /\ EventuallyTerminated

\* C9: a session of /stream or /esp32_stream moves Starting -> Streaming ->
\* {Completed | ClientDisconnected | SubprocessError} -> Terminated, or
\* Starting -> SubprocessError when ffmpeg cannot be started, or Completed
\* -> ClientDisconnected | SubprocessError when the client goes away or the
\* read fails while the final bytes are forwarded; and it ends eventually.
C9_SessionStateMachineWithFailures ==
    /\ [][Streaming' =>
            \/ Phase' = Phase
            \/ <<Phase, Phase'>> \in Lifecycle
            \/ <<Phase, Phase'>> \in {<<"Starting", "SubprocessError">>,
                                      <<"Completed", "ClientDisconnected">>,
                                      <<"Completed", "SubprocessError">>}]_vars
    /\ EventuallyTerminated

C9_Witness ==
    /\ Streaming
    /\ gen = "ended"
    /\ outcome = "SubprocessError"
    /\ ~has_proc

\* C10: what a generator has yielded is a prefix of what ffmpeg wrote:
\* every block at most once and in the order written.
C10_ChunkOrdering ==
    /\ Len(sent) <= written
    /\ \A i \in 1..Len(sent) : sent[i] = i

C10_Witness ==
    /\ Len(sent) >= 2
    /\ gen = "yield"
    /\ process = "running"

-----------------------------------------------------------------------------
(* Properties of one resolution *)

Returned(p) == pc[p] = "done" /\ ret[p].status = "returned"

Failed(p) == Returned(p) /\ ~truthy(ret[p].value)

Searches(p) == SelectSeq(calls[p], LAMBDA c : c \in {"search:songs", "search:videos"})

Contacted(p) == SelectSeq(calls[p], LAMBDA c : c \in Instances)

\* The chain ran: yt-dlp was called.
ChainRan(p) == \E i \in 1..Len(calls[p]) : calls[p][i] = "ytdlp"

\* yt-dlp gives a URL: extract_info does not raise and the info has a url,
\* or an audio-only format that has one.
StageASucceeds(info) ==
    /\ ~info.raises
    /\ \/ info.url = "present"
       \/ \E i \in 1..Len(info.formats) :
            /\ info.formats[i].acodec # "none"
            /\ info.formats[i].vcodec = "none"
            /\ info.formats[i].url

\* An instance answers with a usable URL.
GivesUrl(a) ==
    /\ Succeeds(a)
    /\ a.url = "present" \/ (a.url = "absent" /\ a.audio = "present")

\* C13: in a single request, whatever the search, yt-dlp and the Cobalt
\* instances answer (exceptions, nothing found, timeouts, non-200, bodies
\* without a usable URL), get_direct_stream_url does not raise: it returns,
\* and what it returns is a URL or a falsy failure value.
C13_FailuresNeverEscape ==
    \A p \in Procs :
        /\ ret[p].status \in {"running", "returned"}
        /\ pc[p] = "done" => Returned(p)
        /\ Failed(p) => ret[p].value \in {None, EmptyUrl}

\* C13 witness: the song search found nothing, the video search found a
\* link, yt-dlp raised and the instances failed by timeout and by status
\* 500; the call returned None after asking all of them.
C13_Witness ==
    \E p \in Procs :
        /\ Failed(p)
        /\ ret[p].value = None
        /\ upstream[p].info.raises
        /\ Len(Contacted(p)) = Len(COBALT_INSTANCES)
        /\ upstream[p].answers[COBALT_INSTANCES[1]].kind = "timeout"
        /\ upstream[p].answers[COBALT_INSTANCES[2]].status_code = 500
        /\ Searches(p) = <<"search:songs", "search:videos">>
        /\ ~upstream[p].songs.raises
        /\ upstream[p].videos.results # <<>>
        /\ \A x \in Instances : upstream[p].answers[x].url # "empty"

\* C15: when yt-dlp (Stage A) succeeds its URL is what the call returns and
\* no Cobalt instance is contacted; an instance is contacted only after
\* yt-dlp was called and failed; a failure of yt-dlp is not raised; and a
\* request whose chain ran fails only if Stage A failed and Stage B gave no
\* usable URL.
C15_ExtractorChainOrder ==
    \A p \in Procs :
        pc[p] \in {"insert", "store", "done"} /\ ChainRan(p) =>
            LET a == StageASucceeds(upstream[p].info)
                value == IF pc[p] = "done" THEN ret[p].value ELSE audio_url[p]
            IN  /\ ret[p].status \in {"running", "returned"}
                /\ a => /\ value.via = "ytdlp"
                        /\ value.src = youtube_link[p]
                        /\ Contacted(p) = <<>>
                /\ Contacted(p) # <<>> =>
                        /\ ~a
                        /\ \A i \in 1..Len(calls[p]) :
                               calls[p][i] \in Instances =>
                                   \E j \in 1..(i - 1) : calls[p][j] = "ytdlp"
                /\ ~a => Contacted(p) # <<>>
                /\ ~truthy(value) =>
                        /\ ~a
                        /\ \A i \in 1..Len(Contacted(p)) :
                               ~GivesUrl(upstream[p].answers[Contacted(p)[i]])

\* C15 witness: yt-dlp raised, the first instance asked timed out, the
\* second gave a URL, and that URL was returned and cached.
C15_Witness ==
    \E p \in Procs :
        /\ Returned(p)
        /\ upstream[p].info.raises
        /\ Len(Contacted(p)) = 2
        /\ ret[p].value.via = Contacted(p)[2]
        /\ has_key(stream_cache, cache_key(query[p]))

\* The request went through the Resolver: a free-text query that missed
\* the cache.
WentToResolver(p) ==
    /\ pc[p] \in {"insert", "store", "done"}
    /\ ~served[p].hit
    /\ ~is_direct_link(query[p])

Issued(p, pass) == \E i \in 1..Len(calls[p]) : calls[p][i] = pass

\* A search answers with at least one result / with a first result that
\* has a videoId.
HasResults(a) == ~a.raises /\ a.results # <<>>
FirstHasId(a) == HasResults(a) /\ a.results[1] # <<>>

SearchOrder(p) ==
    Searches(p) \in {<<>>, <<"search:songs">>, <<"search:songs", "search:videos">>}

FirstResultsOnly(p) ==
    LET w == upstream[p]
    IN  \/ youtube_link[p] = NoLink
        \/ /\ FirstHasId(w.songs)
           /\ youtube_link[p] = watch_link(w.songs.results[1])
        \/ /\ FirstHasId(w.videos)
           /\ youtube_link[p] = watch_link(w.videos.results[1])

FailsOnlyWithoutId(p) ==
    youtube_link[p] = NoLink =>
        /\ ~(Issued(p, "search:songs") /\ FirstHasId(upstream[p].songs))
        /\ ~(Issued(p, "search:videos") /\ FirstHasId(upstream[p].videos))

\* C16 as claimed: the song search comes first and, when it yields at least
\* one result, the link of its first result is returned; the video search
\* is issued only if no song result exists; the call fails only if neither
\* pass yields an identifier; at most two searches, first results only.
C16_TwoPassProtocol ==
    \A p \in Procs :
        WentToResolver(p) =>
            /\ SearchOrder(p)
            /\ Issued(p, "search:songs") /\ HasResults(upstream[p].songs) =>
                   /\ youtube_link[p] = watch_link(upstream[p].songs.results[1])
                   /\ ~Issued(p, "search:videos")
            /\ Issued(p, "search:videos") => ~HasResults(upstream[p].songs)
            /\ FailsOnlyWithoutId(p)
            /\ FirstResultsOnly(p)

\* C16: the song search comes first and, when its first result has an
\* identifier, the link of that result is returned; the video search is
\* issued only if the song search gave no result or a first result without
\* an identifier; the call fails only if neither pass yields an identifier
\* in its first result; at most two searches, first results only.
C16_TwoPassProtocolOnIdentifiers ==
    \A p \in Procs :
        WentToResolver(p) =>
            /\ SearchOrder(p)
            /\ Issued(p, "search:songs") /\ FirstHasId(upstream[p].songs) =>
                   /\ youtube_link[p] = watch_link(upstream[p].songs.results[1])
                   /\ ~Issued(p, "search:videos")
            /\ Issued(p, "search:videos") =>
                   /\ ~upstream[p].songs.raises
                   /\ ~FirstHasId(upstream[p].songs)
            /\ FailsOnlyWithoutId(p)
            /\ FirstResultsOnly(p)

\* C16 witness: the song search gave results whose first one has no
\* identifier, the video search was issued and the link of its first
\* result was used.
C16_Witness ==
    \E p \in Procs :
        /\ WentToResolver(p)
        /\ HasResults(upstream[p].songs)
        /\ ~FirstHasId(upstream[p].songs)
        /\ Searches(p) = <<"search:songs", "search:videos">>
        /\ Len(upstream[p].videos.results) > 1
        /\ youtube_link[p] = watch_link(upstream[p].videos.results[1])

\* C17: the fallback loop asks each instance at most once and makes at most
\* |instances| requests; and whenever get_direct_stream_url takes Stage B's
\* result for a failure, every instance was asked and each one failed
\* (connection error, timeout, non-200 status or unrecognized shape).
C17_StageBExhaustion ==
    \A p \in Procs :
        pc[p] \in {"insert", "store", "done"} /\ ChainRan(p) =>
            /\ Len(Contacted(p)) <= Len(COBALT_INSTANCES)
            /\ \A i, j \in 1..Len(Contacted(p)) :
                   i # j => Contacted(p)[i] # Contacted(p)[j]
            /\ (Failed(p) /\ Contacted(p) # <<>>) =>
                   /\ Len(Contacted(p)) = Len(COBALT_INSTANCES)
                   /\ \A x \in Instances : ~Succeeds(upstream[p].answers[x])

-----------------------------------------------------------------------------
(* Properties of the lookup *)

\* A live entry for the key of p's query
LiveEntry(p) ==
    LET k == cache_key(query[p])
    IN  /\ has_key(stream_cache, k)
        /\ clock - entry_of(stream_cache, k).time < CACHE_DURATION

\* The calls of a resolution in order: the searches (none for a direct
\* link), then yt-dlp, then Cobalt instances.
CallsInOrder(c, direct) ==
    \E n \in 0..2 :
        /\ n <= Len(c)
        /\ direct => n = 0
        /\ SubSeq(c, 1, n) = SubSeq(<<"search:songs", "search:videos">>, 1, n)
        /\ Len(c) > n =>
              /\ c[n + 1] = "ytdlp"
              /\ \A i \in (n + 2)..Len(c) : c[i] \in Instances

\* p's test `if cache_key in stream_cache` runs in this step
Looks(p) == pc[p] = "lookup" /\ pc'[p] # "lookup"

\* p reads the entry of its key in this step
Reads(p) == pc[p] = "read" /\ pc'[p] # "read"

\* p tests the age of the entry it has read in this step
Ages(p) == pc[p] = "age" /\ pc'[p] # "age"

\* The search, yt-dlp and the fallback of p's call answer in this step
Resolves(p) == pc[p] = "resolve" /\ pc'[p] # "resolve"

HitSkipsResolution(p) ==
    /\ Looks(p) /\ has_key(stream_cache, cache_key(query[p])) => pc'[p] = "read"
    /\ Reads(p) /\ has_key(stream_cache, cache_key(query[p])) =>
        /\ pc'[p] = "age"
        /\ audio_url'[p] = entry_of(stream_cache, cache_key(query[p])).url
        /\ cache_time'[p] = entry_of(stream_cache, cache_key(query[p])).time
        /\ stream_cache' = stream_cache
    /\ Ages(p) /\ clock - cache_time[p] < CACHE_DURATION =>
        /\ pc'[p] = "done"
        /\ ret'[p] = [status |-> "returned", value |-> audio_url[p]]
        /\ calls'[p] = <<>>
        /\ stream_cache' = stream_cache

MissResolvesInOrder(p) ==
    /\ pc[p] \in {"scan", "delete", "capacity", "sort", "evict", "lookup",
                  "read", "age", "stale", "resolve"} => calls[p] = <<>>
    /\ Looks(p) /\ ~has_key(stream_cache, cache_key(query[p])) => pc'[p] = "resolve"
    /\ Ages(p) /\ pc'[p] = "stale" => clock - cache_time[p] >= CACHE_DURATION
    /\ Resolves(p) =>
        /\ ~served'[p].hit
        /\ CallsInOrder(calls'[p], is_direct_link(query[p]))
        /\ stream_cache' = stream_cache
        /\ pc'[p] = "insert" => calls'[p] # <<>> /\ youtube_link'[p] # NoLink

\* An entry is stored only by the insert of a request for that key, after
\* its calls, with the URL the request resolved.
StoredByInsert ==
    \/ stream_cache' = stream_cache
    \/ LET old == {stream_cache[j] : j \in 1..Len(stream_cache)}
           new == {stream_cache'[i] : i \in 1..Len(stream_cache')} \ old
       IN  \A e \in new :
               \E p \in Procs :
                   /\ pc[p] = "store" /\ pc'[p] = "done"
                   /\ cache_key(query[p]) = e.key
                   /\ ChainRan(p)
                   /\ e.url = audio_url[p]
                   /\ ret'[p].value = e.url

\* C14: a lookup that finds a live entry for the normalized key returns
\* the URL stored in it - stored by the last insert for that key - and
\* makes no search, yt-dlp or fallback call; on a miss the calls are the
\* Resolver's (free text only), then the extractor chain's, and the cache
\* insert comes after them.
C14_CacheHitSkipsResolution ==
    [][/\ \A p \in Procs : HitSkipsResolution(p) /\ MissResolvesInOrder(p)
       /\ StoredByInsert]_vars

\* C14 witness: one request resolved a free-text query (search, yt-dlp)
\* and stored the URL; another request for the same key was served that
\* URL from the cache without any call.
C14_Witness ==
    \E p, o \in Procs :
        /\ served[o].hit
        /\ calls[o] = <<>>
        /\ Returned(p) /\ Returned(o)
        /\ calls[p] = <<"search:songs", "ytdlp">>
        /\ cache_key(query[p]) = cache_key(query[o])
        /\ ret[o].value = ret[p].value
        /\ truthy(ret[o].value)

-----------------------------------------------------------------------------
(* Properties of the request handlers *)

\* The parameter a handler requires: q, or song on the song+singer routes
required(r) == IF r.route \in SongRoutes THEN r.args.song ELSE r.args.q

\* A parameter that is missing or is white space only
blank(a) == \A i \in 1..Len(a) : a[i] \in Whitespace

\* The request of p is for one of the five core endpoints
Core(r) == r.route \in QueryRoutes \cup SongRoutes

\* p's handler starts in this step
Arrives(p) == pc[p] = "idle" /\ pc'[p] # "idle"

\* Response(generate()) is the one place a handler starts ffmpeg.
Spawns(resp) == resp.body = "stream"

\* C11: on each of /stream, /esp32_stream, /stream_pcm, /api/music and
\* /download a missing or white-space-only query parameter is answered 400
\* in the handler's first step: no search, yt-dlp or Cobalt call, no
\* subprocess, and the cache and the statistics are as they were.
C11_EmptyQuery ==
    [][\A p \in Procs :
          Arrives(p) /\ Core(request'[p]) /\ blank(required(request'[p])) =>
              /\ pc'[p] = "answered"
              /\ response'[p].status = 400
              /\ ~Spawns(response'[p])
              /\ calls' = calls
              /\ upstream' = upstream
              /\ ncalls' = ncalls
              /\ stream_cache' = stream_cache
              /\ SERVER_STATS' = SERVER_STATS]_vars

C11_Witness ==
    /\ pc["r1"] = "answered" /\ pc["r2"] = "answered"
    /\ request["r1"].route = "/stream_pcm"
    /\ request["r1"].args.song = <<" ">>
    /\ request["r1"].args.singer # <<>>
    /\ response["r1"].status = 400
    /\ request["r2"].route = "/download"
    /\ request["r2"].args.q = <<" ", "\t">>
    /\ response["r2"].status = 400
    /\ stream_cache # <<>>

\* get_direct_stream_url gave p's handler None or "": the search found no
\* video, or yt-dlp and Cobalt both gave no URL.
Unresolved(p) == ret[p].status = "returned" /\ ~truthy(ret[p].value)

NothingFound(p) == Unresolved(p) /\ ~ChainRan(p) /\ Searches(p) # <<>>
BothStagesFailed(p) == Unresolved(p) /\ ChainRan(p) /\ Contacted(p) # <<>>

\* C12: on each of the five core endpoints a request whose resolution failed
\* is answered 404, and the answer is not a generator that starts ffmpeg.
C12_ResolutionFailureIs404 ==
    \A p \in Procs :
        pc[p] = "answered" /\ Core(request[p]) /\ Unresolved(p) =>
            /\ response[p].status = 404
            /\ ~Spawns(response[p])

C12_Witness ==
    /\ pc["r1"] = "answered" /\ pc["r2"] = "answered"
    /\ request["r1"].route = "/esp32_stream"
    /\ NothingFound("r1")
    /\ response["r1"].status = 404
    /\ request["r2"].route = "/download"
    /\ BothStagesFailed("r2")
    /\ response["r2"].status = 404

\* singer is "youtube" in any mix of cases
IsYoutube(singer) ==
    /\ Len(singer) = Len(YOUTUBE)
    /\ \A i \in 1..Len(YOUTUBE) : lower_char(singer[i]) = YOUTUBE[i]

\* p's handler, on a song+singer route, has asked get_direct_stream_url
Composed(p) == request[p].route \in SongRoutes /\ pc[p] # "idle" /\ response[p].status # 400

\* C18: /stream_pcm and /esp32_stream ask for "{song} {singer}" when singer
\* is not empty and is not "youtube" in any mix of cases, for song alone
\* otherwise, and the two ask for the same query given the same parameters.
C18_QueryComposition ==
    /\ \A p \in Procs :
          Composed(p) =>
              LET song == arg(request[p], "song")
                  singer == arg(request[p], "singer")
              IN  query[p] = IF singer # <<>> /\ ~IsYoutube(singer)
                             THEN song \o <<" ">> \o singer
                             ELSE song
    /\ \A p, o \in Procs :
          Composed(p) /\ Composed(o) /\ request[p].args = request[o].args =>
              query[p] = query[o]

C18_Witness ==
    /\ Composed("r1") /\ Composed("r2")
    /\ request["r1"].route = "/stream_pcm"
    /\ request["r1"].args.singer = <<"Y", "o", "u", "T", "u", "b", "e", " ">>
    /\ query["r1"] = <<"A">>
    /\ request["r2"].route = "/esp32_stream"
    /\ request["r2"].args.singer = <<" ", "b">>
    /\ query["r2"] = <<"A", " ", "b">>

\* p's request is GET /clear_cache, handled in this step
Clears(p) == pc[p] = "clear" /\ pc'[p] # "clear"

\* The request handled before p's was a GET /clear_cache
AfterClear(p) ==
    \E o \in Procs \ {p} : pc[o] = "answered" /\ request[o].route = "/clear_cache"

\* C19: GET /clear_cache leaves stream_cache empty and answers 200 with the
\* number of entries it removed in the message and cache_size 0; the
\* request after it finds no entry and goes to the upstream services.
C19_CacheClear ==
    [][\A p \in Procs :
          /\ Clears(p) =>
                /\ stream_cache' = <<>>
                /\ response'[p].status = 200
                /\ response'[p].message = <<Len(stream_cache)>>
                /\ response'[p].cache_size = 0
          /\ Looks(p) /\ AfterClear(p) => pc'[p] = "resolve"
          /\ Resolves(p) /\ AfterClear(p) =>
                /\ ~served'[p].found
                /\ calls'[p] # <<>>
                /\ upstream'[p] \in Upstreams]_vars

\* C20: /stream_pcm answers a failed resolution with 404 and a JSON body:
\* error holds the composed query, title is song, artist is singer ("" when
\* there is none), audio_url and lyric_url are "".  Without song it answers
\* 400 with a JSON body whose error is not empty.
C20_StreamPcmFailureBody ==
    \A p \in Procs :
        pc[p] = "answered" /\ request[p].route = "/stream_pcm" =>
            LET song == arg(request[p], "song")
                singer == arg(request[p], "singer")
                body == response[p]
            IN  /\ Unresolved(p) =>
                      /\ body.status = 404
                      /\ body.body = "json"
                      /\ Len(body.error) = 2
                      /\ body.error[2] = IF singer # <<>> /\ ~IsYoutube(singer)
                                         THEN song \o <<" ">> \o singer
                                         ELSE song
                      /\ body.title = song
                      /\ body.artist = singer
                      /\ body.audio_url = <<>>
                      /\ body.lyric_url = <<>>
                /\ blank(request[p].args.song) =>
                      /\ body.status = 400
                      /\ body.body = "json"
                      /\ body.error # <<>>

C20_Witness ==
    /\ pc["r1"] = "answered" /\ pc["r2"] = "answered"
    /\ request["r1"].route = "/stream_pcm" /\ request["r2"].route = "/stream_pcm"
    /\ Unresolved("r1") /\ Unresolved("r2")
    /\ request["r1"].args.singer = <<>>
    /\ response["r1"].status = 404
    /\ response["r1"].artist = <<>>
    /\ response["r1"].title = <<"A">>
    /\ request["r2"].args.singer = <<" ", "b">>
    /\ response["r2"].status = 404
    /\ response["r2"].artist = <<"b">>
    /\ response["r2"].error[2] = <<"A", " ", "b">>

-----------------------------------------------------------------------------
(* Properties of concurrent requests and of the cache entries *)

\* The entries of the cache for key k
EntriesFor(cache, k) == {i \in 1..Len(cache) : cache[i].key = k}

\* p's call missed the cache and went to the upstream services
Resolved(p) == ~served[p].hit /\ calls[p] # <<>>

\* p's call has returned a URL it resolved itself
ResolvedUrl(p) == Returned(p) /\ Resolved(p) /\ truthy(ret[p].value)

\* p stores the URL it resolved in this step
Inserts(p) == pc[p] = "store" /\ pc'[p] = "done" /\ truthy(audio_url[p])

\* Both calls missed the cache for the same key and have returned a URL
BothResolved ==
    /\ \A p \in Procs : ResolvedUrl(p)
    /\ cache_key(query["r1"]) = cache_key(query["r2"])

\* C21: two requests for one key can both miss and both resolve; each
\* insert overwrites, so when the second of them has inserted the cache
\* holds one entry for the key, the one of the insert that ran last.
C21_DuplicateWorkRace ==
    [][/\ \A p \in Procs :
            Inserts(p) =>
                LET k == cache_key(query[p])
                IN  /\ Cardinality(EntriesFor(stream_cache', k)) = 1
                    /\ entry_of(stream_cache', k).url = audio_url[p]
                    /\ entry_of(stream_cache', k).time = time_read[p]
       /\ BothResolved =>
            LET k == cache_key(query["r1"])
            IN  /\ Cardinality(EntriesFor(stream_cache, k)) = 1
                /\ entry_of(stream_cache, k).url \in {ret[p].value : p \in Procs}]_vars

C21_Witness ==
    /\ BothResolved
    /\ ChainRan("r1") /\ ChainRan("r2")
    /\ ret["r1"].value # ret["r2"].value
    /\ Cardinality(EntriesFor(stream_cache, cache_key(query["r1"]))) = 1
    /\ \E p \in Procs :
          entry_of(stream_cache, cache_key(query[p])).url = ret[p].value

-----------------------------------------------------------------------------
(* Properties of the read loops *)

\* The client went away while /stream or /esp32_stream has an ffmpeg process
Abandoned ==
    /\ client = "gone"
    /\ endpoint \in {"stream", "esp32"}
    /\ has_proc
    /\ gen \notin {"none", "ended"}

\* C22: once the client has gone away the generator of /stream and of
\* /esp32_stream comes to process.terminate(), also when ffmpeg is alive
\* and writes nothing more while the generator is in stdout.read.
C22_CancellationResponsive == Abandoned ~> (term \/ (has_proc /\ ~alive(process)))

\* The generator is in stdout.read(chunk_size), ffmpeg runs and has written
\* nothing that is still to be read, and the client is gone.
C22_BlockedInRead ==
    /\ Abandoned
    /\ gen = "read"
    /\ process = "running"
    /\ pipe = <<>>
    /\ ~term

\* ffmpeg is alive and waits in a write to its full stderr pipe
WaitsOnStderr == has_proc /\ process = "running" /\ ffmpeg_waits

\* C23: every session whose ffmpeg has a stderr pipe, /download included,
\* has a reader of that pipe, so ffmpeg never waits on a full stderr pipe
\* that nobody reads while the generator waits for stdout.
C23_DiagnosticsDrained ==
    /\ has_proc /\ alive(process) => drains_stderr(endpoint)
    /\ ~(WaitsOnStderr /\ gen = "read" /\ pipe = <<>> /\ ~drains_stderr(endpoint))

\* /download: ffmpeg waits for its stderr to be read, the generator waits
\* for ffmpeg's stdout, and nothing else can happen to either.
C23_DownloadStalls ==
    /\ endpoint = "download"
    /\ WaitsOnStderr
    /\ gen = "read"
    /\ pipe = <<>>
    /\ ~term

\* The positions of the generator in its read loop
InLoop == {"poll", "read", "sleep", "yield"}

\* C24: in /stream and /esp32_stream a read that returns no data while
\* ffmpeg is alive is followed by a sleep and another turn of the loop; the
\* loop is left only when ffmpeg has exited, a read failed or the client is
\* gone.
C24_EmptyReadRetries ==
    [][Streaming =>
          /\ gen = "read" /\ pipe = <<>> /\ alive(process) /\ gen' # "read"
                /\ outcome' = outcome
                => gen' = "sleep"
          /\ gen = "sleep" /\ gen' # "sleep" => gen' = "poll"
          /\ gen \in InLoop /\ gen' \notin InLoop =>
                \/ ~alive(process)
                \/ outcome' \in {"SubprocessError", "ClientDisconnected"}]_vars

C24_Witness ==
    /\ endpoint = "stream"
    /\ gen = "sleep"
    /\ process = "closing"
    /\ sent # <<>>
    /\ ~term

\* C25: a streaming request starts at most one ffmpeg, also while another
\* request streams, and only its own generator acts on it; after Popen failed or a read failed the generator
\* goes to its end: no second Popen, no call of get_direct_stream_url, and
\* the response that was begun stays as it is.
C25_OneSubprocessPerSession ==
    [][/\ Len(procs) + other_gens + other_procs <= cycle
       /\ other_procs' > other_procs =>
             /\ other_procs' = other_procs + 1
             /\ other_gens' = other_gens - 1
       /\ <<other_gens, other_procs>>' # <<other_gens, other_procs>> =>
             UNCHANGED <<gen, outcome, procs, has_proc, term, written, pipe, sent>>
       /\ Len(procs') # Len(procs) =>
             /\ gen = "spawn" /\ ~has_proc
             /\ procs' = Append(procs, "running")
       /\ gen' = "spawn" => gen \in {"created", "spawn"}
       /\ \A i \in 1..Len(procs) :
             procs'[i] # procs[i] =>
                 i = Len(procs) /\ has_proc /\ other_procs' = other_procs
       /\ outcome = "SubprocessError" /\ gen' # "created" =>
             /\ gen' \in {"finally", "wait", "ended"}
             /\ outcome' = outcome
             /\ Len(procs') = Len(procs)
             /\ sent' = sent
       /\ gen # "ended" /\ gen' # "created" =>
             /\ ncalls' = ncalls
             /\ response' = response]_vars

C25_Witness ==
    /\ cycle = MaxCycles
    /\ Len(procs) = 1
    /\ gen = "ended"
    /\ outcome = "SubprocessError"
    /\ has_proc
    /\ sent # <<>>
    /\ Len(sent) < written

\* The entries of a cache, as a set
Entries(cache) == {cache[i] : i \in 1..Len(cache)}

\* p's resolution fails in this step: the search found nothing (in the
\* resolution step) or both stages gave no URL (in the insert step)
Fails(p) ==
    /\ pc[p] \in {"resolve", "insert"}
    /\ pc'[p] = "done"
    /\ ret'[p].status = "returned"
    /\ ~truthy(ret'[p].value)

\* p's lookup has found an entry of its key that was no longer fresh, and
\* deletes the entry of that key
DeletesStale(p, e) ==
    /\ pc[p] = "stale" /\ pc'[p] = "resolve"
    /\ e.key = cache_key(query[p])
    /\ ~served[p].hit

\* p runs one of the two deleting loops of cleanup_cache
Sweeping(p) == pc[p] \in {"delete", "evict"}

\* C26: an entry appears in the cache only by the insert of a request that
\* resolved a non-empty URL; entries disappear only in cleanup_cache, as a
\* stale entry at a lookup for their key, by being overwritten or by
\* /clear_cache; and the step in which a resolution fails creates no entry
\* for its key and leaves every other entry as it was: an entry of that key
\* in the dict is one another request has stored.
C26_InsertOnlyOnSuccess ==
    [][/\ stream_cache' # stream_cache =>
          /\ \A e \in Entries(stream_cache') \ Entries(stream_cache) :
             /\ truthy(e.url)
             /\ \E p \in Procs :
                   /\ Inserts(p)
                   /\ e = [key |-> cache_key(query[p]), time |-> time_read[p],
                           url |-> audio_url[p]]
          /\ \A e \in Entries(stream_cache) \ Entries(stream_cache') :
             \E p \in Procs :
                 \/ Sweeping(p)
                 \/ DeletesStale(p, e)
                 \/ Clears(p)
                 \/ Inserts(p) /\ e.key = cache_key(query[p])
       /\ \A p \in Procs :
             Fails(p) =>
                 /\ stream_cache' = stream_cache
                 /\ has_key(stream_cache', cache_key(query[p])) =>
                       \E o \in Procs \ {p} :
                           /\ ResolvedUrl(o)
                           /\ cache_key(query[o]) = cache_key(query[p])
                           /\ ret[o].value =
                                 entry_of(stream_cache', cache_key(query[p])).url]_vars

\* One request stored its URL and another one, for another key, failed
\* after yt-dlp and Cobalt: the cache holds the first one's entry only.
C26_Witness ==
    /\ ResolvedUrl("r1")
    /\ Failed("r2") /\ BothStagesFailed("r2")
    /\ cache_key(query["r1"]) # cache_key(query["r2"])
    /\ ~has_key(stream_cache, cache_key(query["r2"]))
    /\ Entries(stream_cache) =
          {[key |-> cache_key(query["r1"]), time |-> clock,
            url |-> ret["r1"].value]}

\* C27: a hit returns the stored URL and leaves the dict as it is, so the
\* creation time of an entry is the time of its insert; an entry is served
\* only while it is younger than 1800 s, and a lookup 1800 s or more after
\* the insert does not serve it, whatever was read in between.
C27_CreationTimeExpiry ==
    [][\A p \in Procs :
          /\ Reads(p) /\ has_key(stream_cache, cache_key(query[p])) =>
                /\ stream_cache' = stream_cache
                /\ audio_url'[p] = entry_of(stream_cache, cache_key(query[p])).url
                /\ cache_time'[p] = entry_of(stream_cache, cache_key(query[p])).time
          /\ Ages(p) =>
                /\ stream_cache' = stream_cache
                /\ served'[p].created = cache_time[p]
                /\ served'[p].hit => ret'[p].value = audio_url[p]
          /\ served[p].hit => served[p].at - served[p].created < 1800
          /\ Ages(p) /\ clock - cache_time[p] >= 1800
                => ~served'[p].hit /\ pc'[p] = "stale"]_vars

\* The entry of the last earlier request was read by one request and, 1800 s
\* after its insert, found and not served by another.
C27_Witness ==
    /\ served["r1"].hit
    /\ served["r2"].found /\ ~served["r2"].hit
    /\ cache_key(query["r1"]) = cache_key(query["r2"])
    /\ served["r1"].created = served["r2"].created
    /\ served["r1"].at < served["r2"].at
    /\ served["r2"].at - served["r2"].created = 1800

\* C28: every call of get_direct_stream_url runs cleanup_cache to its end
\* before its lookup, whether the lookup hits or misses; cleanup_cache run
\* twice at one time changes nothing the second time; and what a
\* cleanup_cache that ran alone leaves is a dict that cleanup_cache at the
\* same time leaves as it is.
C28_SweepFirstAndIdempotent ==
    [][\A p \in Procs :
          /\ pc'[p] # pc[p] /\ caller'[p] = "get_direct_stream_url" =>
                /\ pc[p] = "idle" => pc'[p] = "scan"
                /\ pc'[p] = "delete" => pc[p] = "scan"
                /\ pc'[p] = "capacity" => pc[p] = "delete"
                /\ pc'[p] = "sort" => pc[p] = "capacity"
                /\ pc'[p] = "evict" => pc[p] = "sort"
                /\ pc'[p] = "lookup" => pc[p] \in {"capacity", "evict"}
                /\ pc'[p] = "read" => pc[p] = "lookup"
                /\ pc'[p] = "age" => pc[p] = "read"
                /\ pc'[p] = "stale" => pc[p] = "age"
                /\ pc'[p] = "resolve" => pc[p] \in {"lookup", "stale"}
                /\ pc'[p] = "insert" => pc[p] = "resolve"
                /\ pc'[p] = "store" => pc[p] = "insert"
                /\ served'[p] # served[p] => pc[p] = "age"
          /\ pc[p] = "idle" /\ pc'[p] = "scan" =>
                LET once == cleanup_cache(stream_cache, clock)
                IN  cleanup_cache(once, clock) = once
          /\ ReturnsFromCleanup(p) /\ (\A o \in Procs \ {p} : pc[o] = "idle") =>
                cleanup_cache(stream_cache', current_time[p]) = stream_cache']_vars

\* A hit and a miss, each after its cleanup; the first cleanup removed the
\* oldest entry of a cache over its capacity.
C28_Witness ==
    /\ pc["r1"] = "done" /\ pc["r2"] = "done"
    /\ served["r1"].hit
    /\ ResolvedUrl("r2")
    /\ ~has_key(stream_cache, earlier_key(0))
    /\ Len(stream_cache) = MAX_CACHE_SIZE + 1

\* p's lookup finds the entry it has read for its key 1800 s old or older
FindsStale(p) ==
    /\ Ages(p)
    /\ clock - cache_time[p] >= 1800

\* p's `del stream_cache[cache_key]` runs in this step
DeletesItsKey(p) == pc[p] = "stale" /\ pc'[p] = "resolve"

\* C29: a lookup that finds an entry aged 1800 s or more goes on to
\* `del stream_cache[cache_key]`, which removes the entry of the key, and
\* nothing else, before the resolution starts; when that resolution fails
\* the dict holds no entry for the key (unless another request has stored
\* one since).
C29_StaleEntryRemoved ==
    [][\A p \in Procs :
          LET k == cache_key(query[p])
          IN  /\ FindsStale(p) =>
                    /\ pc'[p] = "stale"
                    /\ served'[p].found /\ ~served'[p].hit
              /\ pc[p] = "stale" /\ pc'[p] # "stale" =>
                    DeletesItsKey(p) \/ ret'[p].status = "KeyError"
              /\ DeletesItsKey(p) =>
                    /\ ~has_key(stream_cache', k)
                    /\ Entries(stream_cache') =
                          Entries(stream_cache) \ {entry_of(stream_cache, k)}
                    /\ calls[p] = <<>>
              /\ Resolves(p) /\ served[p].found => ~served[p].hit
              /\ pc[p] \in {"resolve", "insert"} /\ pc'[p] # pc[p] =>
                    stream_cache' = stream_cache
              /\ Fails(p) /\ served'[p].found /\ has_key(stream_cache', k) =>
                    \E o \in Procs \ {p} :
                        /\ ResolvedUrl(o)
                        /\ cache_key(query[o]) = k
                        /\ ret[o].value = entry_of(stream_cache', k).url]_vars

\* The query of the second earlier request is asked again 1800 s after its
\* insert and the search finds nothing: the entry is gone, and the dict
\* holds what another request stored.
C29_Witness ==
    /\ Failed("r2") /\ NothingFound("r2")
    /\ query["r2"] = earlier_key(1)
    /\ served["r2"].found /\ ~served["r2"].hit
    /\ served["r2"].at - served["r2"].created = CACHE_DURATION
    /\ ~has_key(stream_cache, cache_key(query["r2"]))
    /\ ResolvedUrl("r1")
    /\ has_key(stream_cache, cache_key(query["r1"]))

-----------------------------------------------------------------------------
(* Properties of the way from the query to the extractor chain *)

\* q begins with http:// or https://
BeginsWithScheme(q) ==
    \/ Len(q) >= 7 /\ SubSeq(q, 1, 7) = <<"h", "t", "t", "p", ":", "/", "/">>
    \/ Len(q) >= 8 /\ SubSeq(q, 1, 8) = <<"h", "t", "t", "p", "s", ":", "/", "/">>

\* The video ids in the answers of the two searches
FoundIds(w) ==
    {w.songs.results[i] : i \in 1..Len(w.songs.results)}
        \cup {w.videos.results[i] : i \in 1..Len(w.videos.results)}

\* p's call missed the cache and its resolution has come to its end
PastResolution(p) == pc[p] \in {"insert", "store", "done"} /\ ~served[p].hit

\* The URL p resolved, if any, was extracted from link
ExtractedFrom(p, link) ==
    /\ truthy(audio_url[p]) => audio_url[p].src = link
    /\ truthy(ret[p].value) => ret[p].value.src = link

\* C30: for a query that begins with http:// or https:// no search is made
\* and yt-dlp and Cobalt are given the query itself; for any other query
\* they are given the watch link of a video the search found, and are not
\* called at all when the search gives no link.
C30_DirectLinksBypassResolver ==
    \A p \in Procs :
        PastResolution(p) =>
            IF BeginsWithScheme(query[p])
            THEN /\ Searches(p) = <<>>
                 /\ ChainRan(p)
                 /\ youtube_link[p] = query_link(query[p])
                 /\ ExtractedFrom(p, query_link(query[p]))
            ELSE IF youtube_link[p] = NoLink
            THEN /\ ~ChainRan(p)
                 /\ Contacted(p) = <<>>
                 /\ pc[p] = "done"
                 /\ ~truthy(ret[p].value)
            ELSE /\ \E id \in FoundIds(upstream[p]) \ {<<>>} :
                        youtube_link[p] = watch_link(id)
                 /\ Searches(p) # <<>>
                 /\ ChainRan(p)
                 /\ ExtractedFrom(p, youtube_link[p])

\* An https:// link resolved by Cobalt without a search, although the
\* searches would have found videos.
C30_Witness ==
    \E p \in Procs :
        /\ ResolvedUrl(p)
        /\ query[p] = <<"h", "t", "t", "p", "s", ":", "/", "/", "y">>
        /\ HasResults(upstream[p].songs)
        /\ Searches(p) = <<>>
        /\ Contacted(p) # <<>>
        /\ ret[p].value.src = query_link(query[p])

-----------------------------------------------------------------------------
(* C31 *)

\* 'url' in info
Advertises(info) == info.url # "absent"

\* The format has an audio codec and no video codec ('none' marks a codec
\* the format does not have) and has a URL.
AudioOnlyWithUrl(fmt) == fmt.acodec # "none" /\ fmt.vcodec = "none" /\ fmt.url

\* C31: when extraction succeeds, get_best_audio_url_ytdlp returns the
\* top-level URL if the info advertises one; otherwise the URL of the first
\* listed format, in list order, that has an audio codec, no video codec
\* and a URL; and it returns failure if there is no such format.
C31_StageASelection ==
    (yt_pc = "returned" /\ ~yt_info.raises) =>
        IF Advertises(yt_info)
        THEN IF yt_info.url = "present"
             THEN yt_result = Url(ExtractLink, "ytdlp", "url")
             ELSE ~truthy(yt_result)
        ELSE \/ \E i \in 1..Len(yt_info.formats) :
                    /\ AudioOnlyWithUrl(yt_info.formats[i])
                    /\ \A j \in 1..(i - 1) : ~AudioOnlyWithUrl(yt_info.formats[j])
                    /\ yt_result = Url(ExtractLink, "ytdlp", FormatName[i])
             \/ /\ \A i \in 1..Len(yt_info.formats) :
                        ~AudioOnlyWithUrl(yt_info.formats[i])
                /\ yt_result = None

\* The second format was returned after the first, which has audio and a
\* URL but also video, was passed over.
C31_Witness ==
    /\ yt_pc = "returned"
    /\ ~yt_info.raises
    /\ ~Advertises(yt_info)
    /\ Len(yt_info.formats) = 2
    /\ yt_info.formats[1] = [acodec |-> "opus", vcodec |-> "vp9", url |-> TRUE]
    /\ yt_result = Url(ExtractLink, "ytdlp", "format2")

-----------------------------------------------------------------------------
(* C32 *)

\* The answer is a response with status 200 whose JSON body has a url field
\* or an audio field.
HasUrlOrAudio(a) ==
    /\ a.kind = "http" /\ a.status_code = 200 /\ a.json = "dict"
    /\ (a.url # "absent" \/ a.audio # "absent")

\* The field of the answer the loop looks at: url when it is there.
SelectedField(a) == IF a.url # "absent" THEN "url" ELSE "audio"

\* The answers of the instances contacted, in the order of the requests
AnswersSeen == [i \in 1..Len(fb_contacted) |-> fb_answers[fb_contacted[i]]]

\* The last instance contacted
LastContacted == fb_contacted[Len(fb_contacted)]

\* What the selected field of the answer of instance x holds: the string
\* (a URL or ''), or the array as a list (empty or not).
SelectedValue(x) ==
    LET a == fb_answers[x]
        held == a[SelectedField(a)]
    IN  IF held = "present" THEN Url(FallbackLink, x, SelectedField(a))
        ELSE IF held = "array"
        THEN [src |-> FallbackLink, via |-> x,
              field |-> IF SelectedField(a) = "url" THEN "[url]" ELSE "[audio]"]
        ELSE IF held = "empty_array"
        THEN [src |-> NoLink, via |-> "empty list", field |-> ""]
        ELSE EmptyUrl

\* The loop stopped at the last contacted instance and returned the value
\* of the selected field of its answer.
ReturnedSelected == fb_result = SelectedValue(LastContacted)

\* C32 as stated: the loop goes past an answer exactly when it is not a 200
\* whose JSON body has a url or an audio field, and returns the url field,
\* or else the audio field, of the first answer that is one.
C32_ResponseShapes ==
    fb_pc = "returned" =>
        /\ \A i \in 1..(Len(fb_contacted) - 1) : ~HasUrlOrAudio(AnswersSeen[i])
        /\ IF HasUrlOrAudio(AnswersSeen[Len(fb_contacted)])
           THEN ReturnedSelected
           ELSE fb_result = None /\ Len(fb_contacted) = Len(fb_order)

\* C32, amended: an answer counts as success exactly when its status is 200
\* and its JSON body has a url field that holds a string or an array or,
\* having no url field, an audio field that holds a string or an array; the
\* value returned is what that field holds; every other answer (a 200 whose
\* selected field holds null, a boolean, a number or an object included)
\* makes the loop go on to the next instance.
C32_ResponseShapesOfSliceables ==
    fb_pc = "returned" =>
        /\ \A i \in 1..(Len(fb_contacted) - 1) : ~Succeeds(AnswersSeen[i])
        /\ IF Succeeds(AnswersSeen[Len(fb_contacted)])
           THEN ReturnedSelected
           ELSE fb_result = None /\ Len(fb_contacted) = Len(fb_order)

\* The loop went past a 200 whose url field holds null although its audio
\* field holds a URL, and stopped at the next instance, whose url field
\* holds an array and whose audio field holds a URL: the list was returned.
C32_Witness ==
    /\ fb_pc = "returned"
    /\ Len(fb_contacted) = 2
    /\ AnswersSeen[1] = Answer("http", 200, "dict", "stream", "null", "present")
    /\ AnswersSeen[2] = Answer("http", 200, "dict", "stream", "array", "present")
    /\ fb_result = UrlList(FallbackLink, LastContacted, "url")
    /\ fb_result # Url(FallbackLink, LastContacted, "url")

-----------------------------------------------------------------------------
(* C33 *)

\* C33: an error raised while the stderr of ffmpeg is read or logged ends
\* only the read_stderr thread: the session still forwards what ffmpeg
\* produces, so after such an error ffmpeg is never held up by its stderr
\* while the generator waits for its stdout.
C33_DiagnosticFailuresSwallowed ==
    ~(/\ Streaming
      /\ reader = "failed"
      /\ WaitsOnStderr
      /\ gen = "read"
      /\ pipe = <<>>)

\* After read_stderr failed, ffmpeg waits for its stderr to be read and the
\* generator for ffmpeg's stdout, with blocks still to come and the client
\* connected.
C33_StreamStalls ==
    /\ Streaming
    /\ reader = "failed"
    /\ WaitsOnStderr
    /\ gen = "read"
    /\ pipe = <<>>
    /\ written < MaxBlocks
    /\ client = "connected"
    /\ ~term

-----------------------------------------------------------------------------
(* C34 *)

\* The generator is in its finally block or past it, and terminate() was
\* called if there is a process.
CleanedUp ==
    /\ gen \in {"finally", "wait", "ended"}
    /\ gen \in {"wait", "ended"} /\ has_proc => term

\* A step of a generator, of its ffmpeg, of its client or of the server
\* that runs it, the close of the generator included: something of the
\* streams changes and no handler answers.
SessionMoves == streamVars' # streamVars /\ response' = response

\* p's handler counts a failed stream in this step: get_direct_stream_url
\* has returned no URL to it.
CountsFailure(p) ==
    /\ pc[p] = "done" /\ pc'[p] = "counted"
    /\ counts_streams(request[p])
    /\ ret[p].status = "returned" /\ ~truthy(ret[p].value)
    /\ SERVER_STATS' = update_stats(SERVER_STATS, "stream", FALSE)

\* p's handler answers in this step.
Answers(p) == pc[p] \in {"done", "counted"} /\ pc'[p] = "answered"

\* C34: a stream that ends because the server closed the generator of a
\* client that went away leads to the cleanup of ffmpeg; no step of a
\* generator, of its close or of its cleanup changes a statistic (a
\* statistic changes only in a step of a request handler); failed_streams
\* is incremented only by a handler to which the resolution returned no
\* URL, and that handler answers 404 and makes no generator.
C34_DisconnectIsNoFailure ==
    /\ [](outcome = "ClientDisconnected" => CleanedUp)
    /\ [][SessionMoves => SERVER_STATS' = SERVER_STATS]_vars
    /\ [][SERVER_STATS'.failed_streams # SERVER_STATS.failed_streams
              => /\ \E p \in Procs : CountsFailure(p)
                 /\ streamVars' = streamVars]_vars
    /\ [][\A p \in Procs :
            Answers(p) /\ ret[p].status = "returned" /\ ~truthy(ret[p].value)
                => /\ response'[p].status = 404
                   /\ streamVars' = streamVars]_vars

\* /stream was served, its client went away, the generator was closed and
\* ffmpeg terminated; during the cleanup a request to /stream_pcm was
\* counted, served from the cache: two successful streams, no failed one.
C34_Witness ==
    /\ outcome = "ClientDisconnected"
    /\ gen = "wait"
    /\ term
    /\ sent # <<>>
    /\ request["r1"].route = "/stream" /\ pc["r1"] = "answered"
    /\ request["r2"].route = "/stream_pcm" /\ pc["r2"] = "counted"
    /\ served["r2"].hit
    /\ SERVER_STATS.successful_streams = 2
    /\ SERVER_STATS.failed_streams = 0
    /\ SERVER_STATS.cache_hits = 1

-----------------------------------------------------------------------------
(* C35 *)

\* C35: under any interleaving of concurrent requests no cache operation
\* fails: every key cleanup_cache or get_direct_stream_url reads or deletes
\* is still in the dict, and no expiry scan runs over a dict another
\* request changes during the scan, so no call ends with KeyError or
\* RuntimeError.
C35_CacheOperationsSafe ==
    \A p \in Procs : ret[p].status \notin {"KeyError", "RuntimeError"}

\* Two requests found the same expired key in their scans; the other
\* deleted it first, and this one's del raised KeyError.
C35_DeleteOfMissingKey ==
    \E p \in Procs : ret[p].status = "KeyError"

\* The dict changed size while this request's expiry scan was iterating
\* over it.
C35_ScanOverChangingDict ==
    \E p \in Procs : ret[p].status = "RuntimeError"

-----------------------------------------------------------------------------
(* C36 *)

\* C36: whenever get_direct_stream_url returns a URL for a direct link,
\* the URL was extracted from that very link; so two direct links that
\* are different sources, such as two links that differ in the case of a
\* letter of the video id, are never served from one cache entry.
C36_CachedAnswerOfRequestedSource ==
    \A p \in Procs :
        /\ pc[p] = "done"
        /\ ret[p].status = "returned"
        /\ truthy(ret[p].value)
        /\ is_direct_link(query[p])
        => ret[p].value.src = query_link(query[p])

\* The request for http://Y was served from the cache the URL that was
\* extracted from http://y.
C36_ServedOtherSource ==
    \E p \in Procs :
        /\ pc[p] = "done"
        /\ query[p] = <<"h", "t", "t", "p", ":", "/", "/", "Y">>
        /\ served[p].hit
        /\ truthy(ret[p].value)
        /\ ret[p].value.src = query_link(<<"h", "t", "t", "p", ":", "/", "/", "y">>)

-----------------------------------------------------------------------------
(* C37 *)

\* The age of a cache entry at p's cleanup_cache
AgeAtSweep(p, e) == current_time[p] - e.time

\* The lookup would serve the entry at the clock of p's cleanup_cache.
LookupServes(p, e) == AgeAtSweep(p, e) < CACHE_DURATION

\* p's expiry scan ends in this step
Scans(p) == pc[p] = "scan" /\ pc'[p] = "delete"

\* p's cleanup_cache returns in this step
Sweeps(p) == ReturnsFromCleanup(p)

\* The scan has put the key of e on p's list of expired keys.
MarkedExpired(p, e) ==
    \E j \in 1..Len(expired_keys'[p]) : expired_keys'[p][j] = e.key

\* C37 as stated: the sweep marks an entry for removal exactly when the
\* lookup, at the same clock, would treat it as stale, also at age 1800 s;
\* and right after cleanup_cache every entry left is one the lookup would
\* serve.
C37_SweepAgreesWithLookup ==
    [][\A p \in Procs :
          /\ Scans(p) =>
                \A i \in 1..Len(stream_cache) :
                    MarkedExpired(p, stream_cache[i]) <=> ~LookupServes(p, stream_cache[i])
          /\ Sweeps(p) =>
                \A i \in 1..Len(stream_cache') : LookupServes(p, stream_cache'[i])]_vars

\* The key of e is on p's list of expired keys.
OnExpiredKeys(p, e) ==
    \E j \in 1..Len(expired_keys[p]) : expired_keys[p][j] = e.key

\* p's loop over its expired keys deletes a key in this step (line 143)
DeletesExpired(p) == pc[p] = "delete" /\ deleted'[p] = deleted[p] + 1

\* e is the entry that another request than p resolved and stored.
StoredBeside(p, e) ==
    \E o \in Procs \ {p} :
        /\ ResolvedUrl(o)
        /\ cache_key(query[o]) = e.key
        /\ ret[o].value = e.url

\* C37, amended: the sweep marks an entry for removal exactly when the
\* lookup would treat it as stale and its age is not exactly 1800 s; each
\* turn of its delete loop removes the entry of the next marked key and
\* no other; right after cleanup_cache every entry left is one the lookup
\* would serve, or is exactly 1800 s old, or is one that another request
\* stored beside it.
C37_SweepAgreesButAtTTL ==
    [][\A p \in Procs :
          /\ Scans(p) =>
                \A i \in 1..Len(stream_cache) :
                    MarkedExpired(p, stream_cache[i])
                        <=> /\ ~LookupServes(p, stream_cache[i])
                            /\ AgeAtSweep(p, stream_cache[i]) # CACHE_DURATION
          /\ DeletesExpired(p) =>
                LET key == expired_keys[p][deleted[p] + 1]
                IN  /\ has_key(stream_cache, key)
                    /\ stream_cache' =
                          SelectSeq(stream_cache, LAMBDA e : e.key # key)
          /\ Sweeps(p) =>
                \A i \in 1..Len(stream_cache') :
                    \/ LookupServes(p, stream_cache'[i])
                    \/ AgeAtSweep(p, stream_cache'[i]) = CACHE_DURATION
                    \/ StoredBeside(p, stream_cache'[i])]_vars

\* cleanup_cache of p has deleted the two entries it marked, one turn of
\* the loop each, and is at its last test, about to return: the cache holds
\* an entry older than 1800 s at its clock, which the other request stored
\* after the scan with the time it had read before.
C37_Witness ==
    \E p \in Procs :
        /\ pc[p] = "capacity"
        /\ Len(expired_keys[p]) = 2
        /\ \A j \in 1..2 : ~has_key(stream_cache, expired_keys[p][j])
        /\ Len(stream_cache) <= MAX_CACHE_SIZE
        /\ \E i \in 1..Len(stream_cache) :
                /\ AgeAtSweep(p, stream_cache[i]) > CACHE_DURATION
                /\ StoredBeside(p, stream_cache[i])

-----------------------------------------------------------------------------
(* C38 *)

\* /stream_pcm was answered with an audio_url, and the next request is the
\* one that fetches that audio_url.
FollowsStreamPcm ==
    /\ pc["r1"] = "answered"
    /\ request["r1"].route = "/stream_pcm"
    /\ response["r1"].status = 200
    /\ follows["r2"]
    /\ request["r2"] = url_request(response["r1"].audio_url)

\* C38: the audio_url of a successful /stream_pcm, when requested, reaches
\* /esp32_stream with the same song and singer, which composes the same
\* query and so the same cache key; with no clear or eviction in between
\* and within the TTL that request is served from the cache entry, with
\* the URL /stream_pcm got and without a call to the upstream services.
C38_StreamPcmRoundTrip ==
    FollowsStreamPcm =>
        /\ request["r2"].route = "/esp32_stream"
        /\ arg(request["r2"], "song") = arg(request["r1"], "song")
        /\ arg(request["r2"], "singer") = arg(request["r1"], "singer")
        /\ query["r2"] = query["r1"]
        /\ cache_key(query["r2"]) = cache_key(query["r1"])
        /\ pc["r2"] \in {"insert", "store", "done", "counted", "answered"} =>
                /\ served["r2"].hit
                /\ calls["r2"] = <<>>
        /\ pc["r2"] \in {"done", "counted", "answered"} =>
                /\ ret["r2"].status = "returned"
                /\ ret["r2"].value = ret["r1"].value
        /\ pc["r2"] = "answered" => response["r2"].status = 200

\* The audio_url of a /stream_pcm request for a song whose name has the
\* characters & + % = and a space was fetched and answered from the cache.
C38_Witness ==
    /\ FollowsStreamPcm
    /\ pc["r2"] = "answered"
    /\ arg(request["r1"], "song") = <<"A", "&", "+", " ", "%", "=", "b">>
    /\ arg(request["r1"], "singer") = <<"b">>
    /\ ~served["r1"].hit
    /\ served["r2"].hit
    /\ response["r2"].status = 200

-----------------------------------------------------------------------------
(* C39 *)

\* No call of get_direct_stream_url is under way.
NoCallRunning == \A p \in Procs : pc[p] \in {"idle", "done", "counted", "answered"}

\* C39: after any sequence of calls of get_direct_stream_url made one after
\* another, cache_hits + cache_misses is the number of calls: a call served
\* from the cache added one hit, every other call one miss, whether its
\* resolution succeeded or failed.
C39_EveryLookupCounted ==
    NoCallRunning =>
        SERVER_STATS.cache_hits + SERVER_STATS.cache_misses = ncalls

\* A call that missed the cache and resolved a URL has returned, and
\* neither cache_hits nor cache_misses has counted it.
C39_SuccessfulMissUncounted ==
    /\ NoCallRunning
    /\ ncalls = 1
    /\ \E p \in Procs : ResolvedUrl(p)
    /\ SERVER_STATS.cache_hits = 0
    /\ SERVER_STATS.cache_misses = 0

=============================================================================
